---- MODULE Spec2Model ----
(***************************************************************************)
(* Order state reconciliation of the Biconomy connector                    *)
(* (hummingbot/connector/exchange/biconomy/biconomy_exchange.py).          *)
(*                                                                         *)
(* Venue payloads are untyped JSON values.  A value is a tagged record:    *)
(* PyNone, PyStr(s), PyInt(n), PyBool(b), PyFloat(u) and PyDict(d), where  *)
(* d is a function from key strings to values.  Decimal amounts are kept   *)
(* as integers in units of 1e-8 (Unit units make 1).                       *)
(***************************************************************************)
EXTENDS Integers, Sequences, FiniteSets, TLC

(***************************************************************************)
(* Python values                                                           *)
(***************************************************************************)
PyNone == [t |-> "none"]
PyStr(s) == [t |-> "str", s |-> s]
PyInt(n) == [t |-> "int", n |-> n]
PyBool(b) == [t |-> "bool", b |-> b]
PyFloat(u) == [t |-> "float", u |-> u]
PyDict(d) == [t |-> "dict", d |-> d]
\* a list, as the sequence of its items
PyList(q) == [t |-> "list", q |-> q]
\* a str kept as the sequence of its tokens and separators
PyText(q) == [t |-> "text", q |-> q]

Unit == 100000000

IsNone(v) == v.t = "none"
IsStr(v) == v.t = "str"
IsDict(v) == v.t = "dict"
IsList(v) == v.t = "list"

\* bool(v)
Truthy(v) ==
    CASE v.t = "none" -> FALSE
      [] v.t = "str" -> v.s # ""
      [] v.t = "int" -> v.n # 0
      [] v.t = "bool" -> v.b
      [] v.t = "float" -> v.u # 0
      [] v.t = "dict" -> DOMAIN v.d # {}
      [] v.t = "list" -> v.q # <<>>
      [] v.t = "text" -> v.q # <<>>

\* a or b
POr(a, b) == IF Truthy(a) THEN a ELSE b

\* entry.get(key) on a mapping d
Get(d, key) == IF key \in DOMAIN d THEN d[key] ELSE PyNone

Digits == <<"0", "1", "2", "3", "4", "5", "6", "7", "8", "9">>

\* str.isdigit() and int(str) on the one-digit strings
IsDigitStr(s) == \E i \in 1..Len(Digits) : Digits[i] = s
IntOfDigitStr(s) == (CHOOSE i \in 1..Len(Digits) : Digits[i] = s) - 1

\* str.lower(): the strings that have an upper-case letter, else unchanged
Lower(s) ==
    CASE s = "BUY" -> "buy"
      [] s = "Buy" -> "buy"
      [] s = "SELL" -> "sell"
      [] s = "Sell" -> "sell"
      [] s = "FILLED" -> "filled"
      [] s = "Finished" -> "finished"
      [] s = "DONE" -> "done"
      [] s = "Success" -> "success"
      [] s = "CANCELED" -> "canceled"
      [] s = "Cancelled" -> "cancelled"
      [] s = "Cancel" -> "cancel"
      [] s = "TRUE" -> "true"
      [] s = "True" -> "true"
      [] s = "SUCCESS" -> "success"
      [] OTHER -> s

\* str(value)
PyStrOf(v) ==
    CASE v.t = "none" -> "None"
      [] v.t = "str" -> v.s
      [] v.t = "int" -> IF v.n \in 0..9 THEN Digits[v.n + 1] ELSE "int"
      [] v.t = "bool" -> IF v.b THEN "True" ELSE "False"
      [] v.t = "float" -> "float"
      [] v.t = "dict" -> "dict"
      [] v.t = "list" -> "list"
      [] v.t = "text" -> "text"

\* Decimal(text): the parseable texts of the model, in units; -1 when the
\* text is no number
DecimalOfText(s) ==
    CASE s = "0" -> 0
      [] s = "0.0" -> 0
      [] s = "0.001" -> 100000
      [] s = "0.0010001" -> 100010
      [] s = "0.00100011" -> 100011
      [] s = "0.002" -> 200000
      [] s = "0.0020002" -> 200020
      [] s = "0.003" -> 300000
      [] s = "0.5" -> Unit \div 2
      [] s = "1" -> Unit
      [] s = "1.5" -> Unit + (Unit \div 2)
      [] s = "2" -> 2 * Unit
      [] OTHER -> -1

\* _decimal_from_value
decimal_from_value(value) ==
    CASE value.t = "none" -> 0
      [] value.t = "str" ->
            IF DecimalOfText(value.s) < 0 THEN 0 ELSE DecimalOfText(value.s)
      [] value.t = "int" -> value.n * Unit
      [] value.t = "bool" -> 0
      [] value.t = "float" -> value.u
      [] value.t = "dict" -> 0
      [] value.t = "list" -> 0
      [] value.t = "text" -> 0

Abs(x) == IF x < 0 THEN 0 - x ELSE x

(***************************************************************************)
(* Constants of the connector                                              *)
(***************************************************************************)
SIDE_BUY == 2
SIDE_SELL == 1
ORDER_EVENT_PUT == 1
ORDER_EVENT_UPDATE == 2
ORDER_EVENT_FINISH == 3
BULK_CANCEL_MAX_SIZE == 10
\* _ORDER_MATCH_TOLERANCE = 0.0001 = 1 / ToleranceDivisor
ToleranceDivisor == 10000
\* the age in seconds after which an unresolvable order is failed
RefreshFailAge == 30

CLIENT_ID_FIELDS == <<"client_id", "clientId", "clientOrderId", "client_oid", "clientOid">>
EXCHANGE_ID_FIELDS == <<"order_id", "orderId", "id">>
AMOUNT_FIELDS == <<"amount", "number", "deal_stock", "size">>
PRICE_FIELDS == <<"price", "deal_price", "avg_price">>

OPEN == "OPEN"
FILLED == "FILLED"
CANCELED == "CANCELED"
FAILED == "FAILED"
OrderStates == {OPEN, FILLED, CANCELED, FAILED}
TerminalStates == {FILLED, CANCELED, FAILED}

BUY == "BUY"
SELL == "SELL"

(***************************************************************************)
(* Identifier resolver: matching a tracked order against a listing entry   *)
(***************************************************************************)
\* the least element of a set of indices, 0 for the empty set
FirstIdx(S) == IF S = {} THEN 0 ELSE CHOOSE i \in S : \A j \in S : i <= j

NonEmptyStr(v) == IsStr(v) /\ v.s # ""
NotNone(v) == ~IsNone(v)

\* _extract_client_order_id: a string, or PyNone
extract_client_order_id(d) ==
    LET i == FirstIdx({j \in 1..Len(CLIENT_ID_FIELDS) : NonEmptyStr(Get(d, CLIENT_ID_FIELDS[j]))})
    IN  IF i = 0 THEN PyNone ELSE Get(d, CLIENT_ID_FIELDS[i])

\* _extract_exchange_order_id: str(value) of the first id field present, or PyNone
extract_exchange_order_id(d) ==
    LET i == FirstIdx({j \in 1..Len(EXCHANGE_ID_FIELDS) : NotNone(Get(d, EXCHANGE_ID_FIELDS[j]))})
    IN  IF i = 0 THEN PyNone ELSE PyStr(PyStrOf(Get(d, EXCHANGE_ID_FIELDS[i])))

\* _coerce_entry_side: PyInt(side) or PyNone
coerce_entry_side(side_value) ==
    CASE side_value.t = "none" -> PyNone
      [] side_value.t = "str" ->
            LET lowered == Lower(side_value.s)
            IN  IF lowered = "buy" THEN PyInt(SIDE_BUY)
                ELSE IF lowered = "sell" THEN PyInt(SIDE_SELL)
                ELSE IF IsDigitStr(lowered) THEN PyInt(IntOfDigitStr(lowered))
                ELSE PyNone
      [] side_value.t = "int" -> PyInt(side_value.n)
      [] side_value.t = "bool" -> PyInt(IF side_value.b THEN 1 ELSE 0)
      [] side_value.t = "float" -> PyInt(side_value.u \div Unit)
      [] side_value.t = "dict" -> PyNone

\* _decimal_from_entry_fields
decimal_from_entry_fields(d, fields) ==
    LET i == FirstIdx({j \in 1..Len(fields) : NotNone(Get(d, fields[j]))})
    IN  IF i = 0 THEN 0 ELSE decimal_from_value(Get(d, fields[i]))

\* _values_close: |lhs - rhs| <= max(1e-8, |rhs| * 0.0001)
values_close(lhs, rhs) ==
    IF rhs = 0 THEN lhs = rhs
    ELSE Abs(lhs - rhs) <= 1 \/ Abs(lhs - rhs) <= Abs(rhs) \div ToleranceDivisor

expected_side(tracked_order) ==
    IF tracked_order.trade_type = BUY THEN SIDE_BUY ELSE SIDE_SELL

entry_side(d) == coerce_entry_side(POr(Get(d, "side"), Get(d, "type")))

\* the first test of _entry_matches_tracked_order
ClientIdMatch(tracked_order, d) ==
    LET client_id == extract_client_order_id(d)
    IN  ~IsNone(client_id) /\ client_id.s = tracked_order.client_order_id

\* the second test of _entry_matches_tracked_order
ExchangeIdMatch(tracked_order, d) ==
    LET exchange_order_id == extract_exchange_order_id(d)
    IN  /\ ~IsNone(exchange_order_id)
        /\ ~IsNone(tracked_order.exchange_order_id)
        /\ exchange_order_id = tracked_order.exchange_order_id

SideContradicts(tracked_order, d) ==
    ~IsNone(entry_side(d)) /\ entry_side(d).n # expected_side(tracked_order)

\* the side test dropped: a differing side only fails to count
HeuristicMatchIgnoringSide(tracked_order, d) ==
    LET side_ok == ~IsNone(entry_side(d)) /\ ~SideContradicts(tracked_order, d)
        entry_amount == decimal_from_entry_fields(d, AMOUNT_FIELDS)
        amount_on == entry_amount > 0 /\ tracked_order.amount > 0
        entry_price == decimal_from_entry_fields(d, PRICE_FIELDS)
        price_on == tracked_order.price > 0 /\ entry_price > 0
        matches == (IF side_ok THEN 1 ELSE 0)
                   + (IF amount_on THEN 1 ELSE 0)
                   + (IF price_on THEN 1 ELSE 0)
    IN  /\ amount_on => values_close(entry_amount, tracked_order.amount)
        /\ price_on => values_close(entry_price, tracked_order.price)
        /\ matches >= 2

\* one agreeing signal taken as enough
HeuristicMatchOneSignal(tracked_order, d) ==
    LET side_on == ~IsNone(entry_side(d))
        entry_amount == decimal_from_entry_fields(d, AMOUNT_FIELDS)
        amount_on == entry_amount > 0 /\ tracked_order.amount > 0
        entry_price == decimal_from_entry_fields(d, PRICE_FIELDS)
        price_on == tracked_order.price > 0 /\ entry_price > 0
        matches == (IF side_on THEN 1 ELSE 0)
                   + (IF amount_on THEN 1 ELSE 0)
                   + (IF price_on THEN 1 ELSE 0)
    IN  /\ ~SideContradicts(tracked_order, d)
        /\ amount_on => values_close(entry_amount, tracked_order.amount)
        /\ price_on => values_close(entry_price, tracked_order.price)
        /\ matches >= 1

\* the heuristic part of _entry_matches_tracked_order (lines 569-588); a
\* market order's price None is kept as 0
HeuristicMatch(tracked_order, d) ==
    LET side_on == ~IsNone(entry_side(d))
        entry_amount == decimal_from_entry_fields(d, AMOUNT_FIELDS)
        amount_on == entry_amount > 0 /\ tracked_order.amount > 0
        entry_price == decimal_from_entry_fields(d, PRICE_FIELDS)
        price_on == tracked_order.price > 0 /\ entry_price > 0
        matches == (IF side_on THEN 1 ELSE 0)
                   + (IF amount_on THEN 1 ELSE 0)
                   + (IF price_on THEN 1 ELSE 0)
    IN  /\ ~SideContradicts(tracked_order, d)
        /\ amount_on => values_close(entry_amount, tracked_order.amount)
        /\ price_on => values_close(entry_price, tracked_order.price)
        /\ matches >= 2

\* _entry_matches_tracked_order
entry_matches_tracked_order(tracked_order, d) ==
    \/ ClientIdMatch(tracked_order, d)
    \/ ExchangeIdMatch(tracked_order, d)
    \/ HeuristicMatch(tracked_order, d)

\* _locate_tracked_order_entry: the index in entries of the first mapping
\* that matches, 0 when none does
RECURSIVE LocateFrom(_, _, _)
LocateFrom(tracked_order, entries, i) ==
    IF i > Len(entries) THEN 0
    ELSE IF IsDict(entries[i]) /\ entry_matches_tracked_order(tracked_order, entries[i].d)
         THEN i
    ELSE LocateFrom(tracked_order, entries, i + 1)

locate_tracked_order_entry(tracked_order, entries) ==
    LET i == LocateFrom(tracked_order, entries, 1)
    IN  IF i = 0 THEN PyNone ELSE entries[i]

\* which test of _entry_matches_tracked_order accepted the entry
MatchKind(tracked_order, d) ==
    IF ClientIdMatch(tracked_order, d) THEN "client_id"
    ELSE IF ExchangeIdMatch(tracked_order, d) THEN "exchange_id"
    ELSE IF HeuristicMatch(tracked_order, d) THEN "heuristic"
    ELSE "none"


(***************************************************************************)
(* Order state from a venue payload                                        *)
(***************************************************************************)
\* CONSTANTS.ORDER_STATE_MAP
ORDER_STATE_MAP(code) ==
    CASE code = ORDER_EVENT_PUT -> OPEN
      [] code = ORDER_EVENT_UPDATE -> OPEN
      [] code = ORDER_EVENT_FINISH -> FILLED

\* isinstance(status, int): bool is a subclass of int, True == 1
IsPyInt(v) == v.t = "int" \/ v.t = "bool"
IntOf(v) == IF v.t = "bool" THEN (IF v.b THEN 1 ELSE 0) ELSE v.n

\* value in (True, 1)
IsTrueOrOne(v) ==
    \/ v.t = "bool" /\ v.b
    \/ v.t = "int" /\ v.n = 1
    \/ v.t = "float" /\ v.u = Unit

\* the cancel flag read before the status
order_state_from_status_cancel_first(order_payload) ==
    LET status == Get(order_payload, "status")
        lowered == IF IsStr(status) THEN Lower(status.s) ELSE ""
    IN  IF IsTrueOrOne(Get(order_payload, "is_cancel")) THEN CANCELED
        ELSE IF IsPyInt(status)
           /\ IntOf(status) \in {ORDER_EVENT_PUT, ORDER_EVENT_UPDATE, ORDER_EVENT_FINISH}
        THEN ORDER_STATE_MAP(IntOf(status))
        ELSE IF IsStr(status) /\ lowered \in {"filled", "finished", "done", "success"}
        THEN FILLED
        ELSE IF IsStr(status) /\ lowered \in {"cancelled", "canceled", "cancel"}
        THEN CANCELED
        ELSE OPEN

\* _order_state_from_status
order_state_from_status(order_payload) ==
    LET status == Get(order_payload, "status")
        lowered == IF IsStr(status) THEN Lower(status.s) ELSE ""
        remaining_value ==
            POr(POr(POr(Get(order_payload, "left"), Get(order_payload, "remain")),
                    Get(order_payload, "unfilled_amount")),
                Get(order_payload, "remain_amount"))
    IN  IF IsPyInt(status)
           /\ IntOf(status) \in {ORDER_EVENT_PUT, ORDER_EVENT_UPDATE, ORDER_EVENT_FINISH}
        THEN ORDER_STATE_MAP(IntOf(status))
        ELSE IF IsStr(status) /\ lowered \in {"filled", "finished", "done", "success"}
        THEN FILLED
        ELSE IF IsStr(status) /\ lowered \in {"cancelled", "canceled", "cancel"}
        THEN CANCELED
        ELSE IF IsTrueOrOne(Get(order_payload, "is_cancel"))
        THEN CANCELED
        ELSE IF ~IsNone(remaining_value) /\ decimal_from_value(remaining_value) = 0
        THEN FILLED
        ELSE OPEN

(***************************************************************************)
(* Trading pairs and venue symbols.  A text is a sequence of tokens and    *)
(* separators: "BTC-USDT" is <<"BTC", "-", "USDT">>.                        *)
(***************************************************************************)
LastIdx(S) == IF S = {} THEN 0 ELSE CHOOSE i \in S : \A j \in S : i >= j

\* trading_pair.rsplit("-", 1) has two parts
HasHyphen(trading_pair) == \E i \in 1..Len(trading_pair) : trading_pair[i] = "-"

\* f"{base}_{quote}" of base, quote = trading_pair.rsplit("-", 1)
SymbolOfPair(trading_pair) ==
    LET i == LastIdx({j \in 1..Len(trading_pair) : trading_pair[j] = "-"})
    IN  SubSeq(trading_pair, 1, i - 1) \o <<"_">>
        \o SubSeq(trading_pair, i + 1, Len(trading_pair))

(***************************************************************************)
(* Venue error messages, as sequences of characters                        *)
(***************************************************************************)
LowerChar(c) ==
    CASE c = "O" -> "o" [] c = "R" -> "r" [] c = "D" -> "d" [] c = "E" -> "e"
      [] c = "N" -> "n" [] c = "T" -> "t" [] c = "F" -> "f" [] c = "U" -> "u"
      [] c = "S" -> "s" [] c = "X" -> "x" [] c = "I" -> "i"
      [] OTHER -> c

LowerText(text) == [i \in 1..Len(text) |-> LowerChar(text[i])]

\* sub in text
Contains(text, sub) ==
    \E k \in 0..(Len(text) - Len(sub)) : SubSeq(text, k + 1, k + Len(sub)) = sub

TxtOrderNotFound == <<"o","r","d","e","r"," ","n","o","t"," ","f","o","u","n","d">>
TxtDoesNotExist == <<"d","o","e","s"," ","n","o","t"," ","e","x","i","s","t">>
\* f"{context} failed ({code}): " of _extract_result, context "cancel order"
TxtCancelFailed ==
    <<"c","a","n","c","e","l"," ","o","r","d","e","r"," ","f","a","i","l","e","d",
      " ","(","1",")",":"," ">>

\* the messages the venue rejects a cancel with
MsgOrderNotFound == <<"O","r","d","e","r"," ","n","o","t"," ","f","o","u","n","d">>
MsgDoesNotExist ==
    <<"o","r","d","e","r"," ","D","O","E","S"," ","N","O","T"," ","E","X","I","S","T">>
MsgNotFound == <<"n","o","t"," ","f","o","u","n","d">>
MsgBusy == <<"s","y","s","t","e","m"," ","b","u","s","y">>
RejectMessages == {MsgOrderNotFound, MsgDoesNotExist, MsgNotFound, MsgBusy}

\* str(exception).lower() contains no needle: every message is "present"
is_missing_order_error_always(message) == TRUE

\* _is_missing_order_error
is_missing_order_error(message) ==
    \/ Contains(LowerText(message), TxtOrderNotFound)
    \/ Contains(LowerText(message), TxtDoesNotExist)


(***************************************************************************)
(* State                                                                   *)
(***************************************************************************)
VARIABLES
    in_flight_orders,           \* the tracked orders, by index: the order tracker's collection
    order_updates,              \* per tracked order, the OrderUpdates the tracker processed for it
    lost_updates,               \* the OrderUpdates the tracker matched to no tracked order
    current_timestamp,          \* the connector's clock, in seconds
    exchange_trading_pair_map,  \* _exchange_trading_pair_map: a set of <<symbol, trading pair>>
    tasks,                      \* the _execute_cancel coroutines: a sequence of frames
    venue_pending,              \* the venue's pending-orders listing of the market
    venue_finished,             \* the venue's finished-orders listing of the market
    faults,                     \* the answers of the venue so far that were no success
    cancel_all_frame,           \* the cancel_all coroutine
    status_poll,                \* the _request_order_status coroutine
    events_handled,             \* the number of user stream events handled
    account_balances,           \* _account_balances: asset -> total balance
    account_available_balances, \* _account_available_balances: asset -> available balance
    empty_balance_logged,       \* _empty_balance_logged
    trading_pairs,              \* _trading_pairs: the configured trading pairs
    venue_balances,             \* the result the venue's balance endpoint answers with
    update_balances_frame,      \* the last _update_balances call
    user_stream_frame,          \* _user_stream_event_listener: the last message it handled
    venue_deals,                \* the result the venue's order-deals endpoint answers with
    fills_frame,                \* the _all_trade_updates_for_order calls
    data_source,                \* the fields of a stream data source
    ws_connections,             \* the connections the data source opened, in order
    ping_tasks,                 \* the _ping_loop tasks the data source created, in order
    listen_frame,               \* the coroutine that runs the stream and tears it down
    user_stream_queue,          \* the queue between the user stream and its listener
    stream_clock                \* time.time(), in ticks

trackerVars == <<in_flight_orders, order_updates, lost_updates>>
venueVars == <<venue_pending, venue_finished>>
callVars == <<cancel_all_frame, status_poll, events_handled>>
balanceVars ==
    <<account_balances, account_available_balances, empty_balance_logged,
      trading_pairs, venue_balances, update_balances_frame, user_stream_frame>>
fillVars == <<venue_deals, fills_frame>>

\* no _all_trade_updates_for_order call yet; polls is the history of the
\* answered calls: the deal entries read and the trade updates returned
NoFillsCall ==
    [pc |-> "idle", calls |-> 0, deal_entries |-> <<>>, trade_updates |-> <<>>,
     polls |-> <<>>]
streamVars ==
    <<data_source, ws_connections, ping_tasks, listen_frame, stream_clock,
      user_stream_queue>>
vars ==
    <<in_flight_orders, order_updates, lost_updates, current_timestamp,
      exchange_trading_pair_map, tasks, venue_pending, venue_finished,
      faults, cancel_all_frame, status_poll, events_handled,
      account_balances, account_available_balances, empty_balance_logged,
      trading_pairs, venue_balances, update_balances_frame, user_stream_frame,
      venue_deals, fills_frame,
      data_source, ws_connections, ping_tasks, listen_frame, stream_clock,
      user_stream_queue>>

\* _update_balances was not called
\* warnings counts the "defaulting to zero" warnings logged so far
NoSnapshot == [pc |-> "idle", warnings |-> 0]

\* no message was handled: the listener waits for the queue (awaits) and has
\* raised nothing; history holds the OrderUpdates passed to the tracker so
\* far, exceptions counts the exceptions of the handler that were logged
NoMessage ==
    [pc |-> "idle", awaits |-> "get", raised |-> "none", history |-> <<>>,
     exceptions |-> 0]

\* the asyncio.Queue of the user stream: the messages put so far, in their
\* order, and how many of them the listener took
EmptyQueue == [put |-> <<>>, taken |-> 0]

\* a balance table without assets
EmptyTable == [asset \in {} |-> 0]

\* no fills were asked for
FillsInit ==
    /\ venue_deals = PyNone
    /\ fills_frame = NoFillsCall

\* a stream data source after construction (__init__): no connection, no
\* liveness task, the message id and the health timestamps zero
NewDataSource(kind) ==
    [kind |-> kind, message_id |-> 0, ping_task |-> 0, ws_assistant |-> 0,
     last_event_timestamp |-> 0, last_client_ping_ts |-> 0,
     last_server_ping_ts |-> 0, last_pong_sent_ts |-> 0]

\* the coroutine that runs the stream, before it connects: ws is the
\* connection it works on, via the operation that tears the connection down,
\* pong the id of the acknowledgement it is sending, raised the exception that
\* ended it
NoListener ==
    [pc |-> "idle", ws |-> 0, via |-> "none", pong |-> PyNone, raised |-> "none"]

\* the stream is not started
StreamIdle ==
    /\ data_source = NewDataSource("user_stream")
    /\ ws_connections = <<>>
    /\ ping_tasks = <<>>
    /\ listen_frame = NoListener
    /\ stream_clock = 1
    /\ user_stream_queue = EmptyQueue

\* the balance tables after construction, no balance request being made
BalancesInit ==
    /\ user_stream_frame = NoMessage
    /\ account_balances = EmptyTable
    /\ account_available_balances = EmptyTable
    /\ empty_balance_logged = FALSE
    /\ trading_pairs = <<>>
    /\ venue_balances = PyNone
    /\ update_balances_frame = NoSnapshot

\* the most answers of the venue in a run that are no success
MaxFaults == 2

\* the venue answers; cost of its members are not served with success
VenueAnswers(cost) ==
    /\ faults + cost <= MaxFaults
    /\ faults' = faults + cost

(***************************************************************************)
(* The order tracker                                                       *)
(***************************************************************************)
\* OrderUpdate; origin names the code that built it
OrderUpdate(client_order_id, exchange_order_id, new_state, origin) ==
    [client_order_id |-> client_order_id, exchange_order_id |-> exchange_order_id,
     new_state |-> new_state, origin |-> origin]

is_done(order) == order.current_state \in TerminalStates

Tracker ==
    [orders |-> in_flight_orders, updates |-> order_updates, lost |-> lost_updates]

SetTracker(ts) ==
    /\ in_flight_orders' = ts.orders
    /\ order_updates' = ts.updates
    /\ lost_updates' = ts.lost

\* the tracked order an update refers to: by client id, else by venue id; 0 when none
fetch_order(orders, update) ==
    LET by_client ==
            {o \in DOMAIN orders :
                /\ ~IsNone(update.client_order_id)
                /\ orders[o].client_order_id = update.client_order_id.s}
        by_exchange ==
            {o \in DOMAIN orders :
                /\ ~IsNone(update.exchange_order_id)
                /\ orders[o].exchange_order_id = update.exchange_order_id}
    IN  IF by_client # {} THEN FirstIdx(by_client) ELSE FirstIdx(by_exchange)

\* a tracker that lets every update replace the state
update_with_order_update_overwriting(order, update) ==
    [order EXCEPT
        !.exchange_order_id =
            IF IsNone(@) /\ ~IsNone(update.exchange_order_id)
            THEN update.exchange_order_id ELSE @,
        !.current_state = update.new_state]

\* the tracked order after an update: the venue id is filled in when absent,
\* a terminal state stays
update_with_order_update(order, update) ==
    [order EXCEPT
        !.exchange_order_id =
            IF IsNone(@) /\ ~IsNone(update.exchange_order_id)
            THEN update.exchange_order_id ELSE @,
        !.current_state = IF @ \in TerminalStates THEN @ ELSE update.new_state]

\* _order_tracker.process_order_update
process_order_update(ts, update) ==
    LET o == fetch_order(ts.orders, update)
    IN  IF o = 0
        THEN [ts EXCEPT !.lost = @ \cup {update}]
        ELSE [ts EXCEPT
                !.orders[o] = update_with_order_update(@, update),
                !.updates[o] = Append(@, update)]

(***************************************************************************)
(* Symbols                                                                 *)
(***************************************************************************)
\* exchange_symbol_associated_to_pair: the symbol returned
symbol_of(map, trading_pair) ==
    IF \E e \in map : e[2] = trading_pair
    THEN (CHOOSE e \in map : e[2] = trading_pair)[1]
    ELSE SymbolOfPair(trading_pair)

\* exchange_symbol_associated_to_pair raises: the pair is not cached and has no hyphen
symbol_raises(map, trading_pair) ==
    (~\E e \in map : e[2] = trading_pair) /\ ~HasHyphen(trading_pair)

\* exchange_symbol_associated_to_pair: the map afterwards
map_after_symbol(map, trading_pair) ==
    IF symbol_raises(map, trading_pair) THEN map
    ELSE {e \in map : e[1] # symbol_of(map, trading_pair)}
         \cup {<<symbol_of(map, trading_pair), trading_pair>>}

(***************************************************************************)
(* _refresh_exchange_order_id, after its listings were read                *)
(***************************************************************************)
ReplyError == [ok |-> FALSE]
ReplyEntries(entries) == [ok |-> TRUE, entries |-> entries]

\* one round of the loop of _find_order_entry_via_rest: the entry matched in
\* the reply, PyNone when the request failed or nothing matches
matched_entry_of(tracked_order, reply) ==
    IF reply.ok THEN locate_tracked_order_entry(tracked_order, reply.entries) ELSE PyNone

\* _sync_tracked_order_with_remote_entry
sync_tracked_order_with_remote_entry(ts, o, entry) ==
    LET order_state == order_state_from_status(entry.d)
    IN  IF order_state \in TerminalStates
        THEN process_order_update(ts,
                OrderUpdate(PyStr(ts.orders[o].client_order_id),
                            ts.orders[o].exchange_order_id, order_state, "sync"))
        ELSE ts

\* _refresh_exchange_order_id, lines 483-493: order_entry was found
refresh_found(ts, o, order_entry) ==
    LET exchange_order_id == extract_exchange_order_id(order_entry.d)
        ts1 == IF ~IsNone(exchange_order_id)
               THEN [ts EXCEPT !.orders[o].exchange_order_id = exchange_order_id]
               ELSE ts
    IN  sync_tracked_order_with_remote_entry(ts1, o, order_entry)

\* max(0.0, self.current_timestamp - tracked_order.creation_timestamp)
order_age(now, order) ==
    IF now - order.creation_timestamp < 0 THEN 0 ELSE now - order.creation_timestamp

\* _update_order_after_failure
update_order_after_failure(ts, o) ==
    process_order_update(ts,
        OrderUpdate(PyStr(ts.orders[o].client_order_id), PyNone, FAILED, "failure"))

\* the order is failed from the age of 30 seconds on
refresh_not_found_from_30(ts, o, now) ==
    IF order_age(now, ts.orders[o]) >= RefreshFailAge
    THEN update_order_after_failure(ts, o)
    ELSE ts

\* _refresh_exchange_order_id, lines 494-511: no entry was found
refresh_not_found(ts, o, now) ==
    IF order_age(now, ts.orders[o]) > RefreshFailAge
    THEN update_order_after_failure(ts, o)
    ELSE ts


(***************************************************************************)
(* _execute_cancel / _place_cancel: one coroutine per frame of tasks.      *)
(* pc: "new" (created), "pending" and "finished" (awaiting that listing    *)
(* inside _refresh_exchange_order_id), "post" (awaiting the cancel         *)
(* request), "done".                                                       *)
(***************************************************************************)
NewTask(o) ==
    [order |-> o, pc |-> "new", exchange_order_id |-> PyNone,
     matched_entry |-> PyNone, matched_by |-> "none", fetched |-> {},
     refresh_attempted |-> FALSE, outcome |-> "running", caller |-> "_place_cancel"]

\* _refresh_exchange_order_id called by _build_batch_cancel_candidates, at its
\* first request
NewRefresh(o) ==
    [NewTask(o) EXCEPT
        !.pc = "pending", !.refresh_attempted = TRUE,
        !.caller = "_build_batch_cancel_candidates"]

\* _place_cancel raises
Raised(frame) == [frame EXCEPT !.pc = "done", !.outcome = "raised"]
\* _place_cancel returns True
ReturnedTrue(frame) == [frame EXCEPT !.pc = "done", !.outcome = "true"]

\* _execute_cancel is called for a tracked order that is not done
ExecuteCancel(o) ==
    /\ UNCHANGED <<balanceVars, fillVars, streamVars>>
    /\ /\ ~is_done(in_flight_orders[o])
       /\ tasks' = Append(tasks, NewTask(o))
       /\ UNCHANGED <<trackerVars, current_timestamp, exchange_trading_pair_map, venueVars,
                      faults, callVars>>

\* _place_cancel from its entry to its first request (lines 224-256, and
\* lines 467-482 and 518-525 of the refresh it may call)
place_cancel_start(frame, tracked_order, map) ==
    IF symbol_raises(map, tracked_order.trading_pair)
    THEN Raised([frame EXCEPT
            !.refresh_attempted = IsNone(tracked_order.exchange_order_id)])
    ELSE IF IsNone(tracked_order.exchange_order_id)
    THEN [frame EXCEPT !.pc = "pending", !.refresh_attempted = TRUE]
    ELSE [frame EXCEPT
            !.pc = "post", !.exchange_order_id = tracked_order.exchange_order_id]

\* a task created by _execute_cancel runs to its first request
PlaceCancelStart(t) ==
    /\ UNCHANGED <<balanceVars, fillVars, streamVars>>
    /\ LET frame == tasks[t]
           tracked_order == in_flight_orders[frame.order]
           map == exchange_trading_pair_map
       IN  /\ frame.pc = "new"
           /\ exchange_trading_pair_map' = map_after_symbol(map, tracked_order.trading_pair)
           /\ tasks' = [tasks EXCEPT ![t] = place_cancel_start(frame, tracked_order, map)]
           /\ UNCHANGED <<trackerVars, current_timestamp, venueVars, faults, callVars>>

\* _place_cancel that goes on to its request whatever the refresh returned
AfterRefreshUnchecked(frame, exchange_order_id) ==
    IF frame.caller = "_build_batch_cancel_candidates"
    THEN [frame EXCEPT
            !.pc = "done", !.outcome = "returned", !.exchange_order_id = exchange_order_id]
    ELSE [frame EXCEPT !.pc = "post", !.exchange_order_id = exchange_order_id]

\* _place_cancel after _refresh_exchange_order_id returned (lines 235-256)
AfterRefresh(frame, exchange_order_id) ==
    IF frame.caller = "_build_batch_cancel_candidates"
    THEN [frame EXCEPT
            !.pc = "done", !.outcome = "returned", !.exchange_order_id = exchange_order_id]
    ELSE IF IsNone(exchange_order_id)
    THEN Raised(frame)
    ELSE [frame EXCEPT !.pc = "post", !.exchange_order_id = exchange_order_id]

\* the frame of _find_order_entry_via_rest after a round of its loop
Scanned(frame, tracked_order, endpoint, reply, entry) ==
    [frame EXCEPT
        !.fetched = IF reply.ok THEN @ \cup {endpoint} ELSE @,
        !.matched_entry = entry,
        !.matched_by = IF IsNone(entry) THEN "none" ELSE MatchKind(tracked_order, entry.d)]

\* the pending listing arrives (or its request fails)
RefreshPendingReply(t, reply) ==
    /\ UNCHANGED <<balanceVars, fillVars, streamVars>>
    /\ LET o == tasks[t].order
           frame == Scanned(tasks[t], in_flight_orders[o], "pending", reply,
                            matched_entry_of(in_flight_orders[o], reply))
           entry == matched_entry_of(in_flight_orders[o], reply)
           ts == refresh_found(Tracker, o, entry)
       IN  /\ frame.pc = "pending"
           /\ VenueAnswers(IF reply.ok THEN 0 ELSE 1)
           /\ IF IsNone(entry)
              THEN /\ tasks' = [tasks EXCEPT ![t] = [frame EXCEPT !.pc = "finished"]]
                   /\ UNCHANGED trackerVars
              ELSE /\ SetTracker(ts)
                   /\ tasks' =
                        [tasks EXCEPT ![t] =
                           AfterRefresh(frame, ts.orders[o].exchange_order_id)]
           /\ UNCHANGED <<current_timestamp, exchange_trading_pair_map, venueVars, callVars>>

\* the finished listing arrives (or its request fails)
RefreshFinishedReply(t, reply) ==
    /\ UNCHANGED <<balanceVars, fillVars, streamVars>>
    /\ LET o == tasks[t].order
           frame == Scanned(tasks[t], in_flight_orders[o], "finished", reply,
                            matched_entry_of(in_flight_orders[o], reply))
           entry == matched_entry_of(in_flight_orders[o], reply)
           ts == IF IsNone(entry)
                 THEN refresh_not_found(Tracker, o, current_timestamp)
                 ELSE refresh_found(Tracker, o, entry)
       IN  /\ frame.pc = "finished"
           /\ VenueAnswers(IF reply.ok THEN 0 ELSE 1)
           /\ SetTracker(ts)
           /\ tasks' =
                [tasks EXCEPT ![t] =
                   IF IsNone(entry)
                   THEN AfterRefresh(frame, PyNone)
                   ELSE AfterRefresh(frame, ts.orders[o].exchange_order_id)]
           /\ UNCHANGED <<current_timestamp, exchange_trading_pair_map, venueVars, callVars>>

\* the venue's answers to a cancel request
CancelAck == [kind |-> "ack"]
CancelReject(message) == [kind |-> "reject", message |-> message]
CancelError == [kind |-> "error"]
CancelReplies == {CancelAck, CancelError} \cup {CancelReject(m) : m \in RejectMessages}

\* _finalize_missing_cancel
finalize_missing_cancel(ts, o) ==
    process_order_update(ts,
        OrderUpdate(PyStr(ts.orders[o].client_order_id),
                    ts.orders[o].exchange_order_id, CANCELED, "missing"))

\* _execute_cancel after _place_cancel returned True: the Canceled update of a
\* synchronous cancel (is_cancel_request_in_exchange_synchronous)
cancel_acknowledged(ts, o) ==
    process_order_update(ts,
        OrderUpdate(PyStr(ts.orders[o].client_order_id), PyNone, CANCELED, "cancel"))

\* the IOError of a rejected cancel is for a missing order
RejectedAsMissing(reply) ==
    reply.kind = "reject" /\ is_missing_order_error(TxtCancelFailed \o reply.message)

\* _place_cancel, lines 255-275: the answer to the cancel request
PlaceCancelReply(t, reply) ==
    /\ UNCHANGED <<balanceVars, fillVars, streamVars>>
    /\ LET frame == tasks[t]
           o == frame.order
       IN  /\ frame.pc = "post"
           /\ VenueAnswers(IF reply.kind = "ack" THEN 0 ELSE 1)
           /\ IF reply.kind = "ack"
              THEN /\ SetTracker(cancel_acknowledged(Tracker, o))
                   /\ tasks' = [tasks EXCEPT ![t] = ReturnedTrue(frame)]
              ELSE IF RejectedAsMissing(reply)
              THEN /\ SetTracker(cancel_acknowledged(finalize_missing_cancel(Tracker, o), o))
                   /\ tasks' = [tasks EXCEPT ![t] = ReturnedTrue(frame)]
              ELSE /\ tasks' = [tasks EXCEPT ![t] = Raised(frame)]
                   /\ UNCHANGED trackerVars
           /\ UNCHANGED <<current_timestamp, exchange_trading_pair_map, venueVars, callVars>>


\* the place-order request is acknowledged with the venue id of the order
\* (_place_order returns it; the OPEN update carries it to the tracker)
PlaceOrderAck(o, exchange_order_id) ==
    /\ UNCHANGED <<balanceVars, fillVars, streamVars>>
    /\ /\ IsNone(in_flight_orders[o].exchange_order_id)
       /\ ~is_done(in_flight_orders[o])
       /\ SetTracker(process_order_update(Tracker,
               OrderUpdate(PyStr(in_flight_orders[o].client_order_id),
                           PyStr(exchange_order_id), OPEN, "ack")))
       /\ UNCHANGED <<current_timestamp, exchange_trading_pair_map, tasks, venueVars,
                      faults, callVars>>

\* no cancel_all is running
NoCall == [pc |-> "idle"]
\* no status poll is running
NoPoll == [pc |-> "idle", polls |-> 0]

(***************************************************************************)
(* The resolver on its own: one tracked order without a venue id, whose    *)
(* cancel runs against a venue with fixed listings.                        *)
(***************************************************************************)
\* the longest the two listings are together
MaxListed == 2

BTC_USDT == <<"BTC", "-", "USDT">>

TrackedOrder(client_order_id, exchange_order_id, trade_type, amount, price, trading_pair) ==
    [client_order_id |-> client_order_id, exchange_order_id |-> exchange_order_id,
     trade_type |-> trade_type, amount |-> amount, price |-> price,
     trading_pair |-> trading_pair, creation_timestamp |-> 0, current_state |-> OPEN]

\* limit and market orders of 0.001 at 0.002, on either side
ResolveOrders ==
    {TrackedOrder("c1", PyNone, side, 100000, price, BTC_USDT) :
        side \in {BUY, SELL}, price \in {0, 200000}}

\* carries the client id of the order; its side is buy
EntryClientId ==
    PyDict([client_id |-> PyStr("c1"), id |-> PyInt(7), side |-> PyStr("buy"),
            amount |-> PyStr("0.001"), price |-> PyStr("0.002")])
\* looks like the order on side, amount and price, for a buy order
EntryLikeBuy ==
    PyDict([id |-> PyStr("8"), side |-> PyInt(2), amount |-> PyStr("0.001"),
            price |-> PyStr("0.002")])
\* within the tolerance of amount and price, for a sell order
EntryLikeSell ==
    PyDict([order_id |-> PyStr("5"), type |-> PyStr("SELL"),
            number |-> PyStr("0.0010001"), deal_price |-> PyStr("0.0020002")])
\* another client's order of the same side and amount
EntryOtherClient ==
    PyDict([clientOrderId |-> PyStr("c2"), id |-> PyStr("9"), side |-> PyStr("Buy"),
            amount |-> PyStr("0.001")])
EntryAmountOnly == PyDict([id |-> PyStr("6"), amount |-> PyStr("0.001")])
EntryFarPrice ==
    PyDict([id |-> PyStr("4"), side |-> PyStr("buy"), amount |-> PyStr("0.001"),
            price |-> PyStr("0.003")])
\* a finished entry of the order itself: canceled, under the venue id 7
EntryCanceledClient ==
    PyDict([clientOid |-> PyStr("c1"), orderId |-> PyInt(7), status |-> PyStr("Canceled")])
EntryJunk == PyStr("junk")

ResolveEntries ==
    {EntryClientId, EntryLikeBuy, EntryLikeSell, EntryOtherClient, EntryAmountOnly,
     EntryFarPrice, EntryCanceledClient, EntryJunk}

ListingsUpTo(n) == UNION {[1..k -> ResolveEntries] : k \in 0..n}

\* the id the venue gave the order when it was placed
AckId == "7"

ResolveInit ==
    /\ in_flight_orders \in [{1} -> ResolveOrders]
    /\ order_updates = [o \in {1} |-> <<>>]
    /\ lost_updates = {}
    /\ current_timestamp = 0
    /\ exchange_trading_pair_map = {}
    /\ tasks = <<NewTask(1)>>
    /\ faults = 0
    /\ cancel_all_frame = NoCall
    /\ status_poll = NoPoll
    /\ events_handled = 0
    /\ BalancesInit
    /\ FillsInit
    /\ StreamIdle
    /\ venue_pending \in ListingsUpTo(MaxListed)
    /\ venue_finished \in ListingsUpTo(MaxListed - Len(venue_pending))

ResolveNext ==
    \/ PlaceCancelStart(1)
    \/ PlaceOrderAck(1, AckId)
    \/ \E reply \in {ReplyError, ReplyEntries(venue_pending)} : RefreshPendingReply(1, reply)
    \/ \E reply \in {ReplyError, ReplyEntries(venue_finished)} : RefreshFinishedReply(1, reply)
    \/ \E reply \in CancelReplies : PlaceCancelReply(1, reply)

SpecResolve == ResolveInit /\ [][ResolveNext]_vars


\* the listings a task has read
ListingsRead(frame) ==
    (IF "pending" \in frame.fetched THEN venue_pending ELSE <<>>)
    \o (IF "finished" \in frame.fetched THEN venue_finished ELSE <<>>)

\* the resolver of the task has finished
Resolved(frame) == frame.refresh_attempted /\ frame.pc \in {"post", "done"}

\* C7: when a listing the resolver read holds an entry with the client id of
\* the tracked order, the resolver resolves the order to an entry matched by
\* client id, whatever the other entries are.
ClientIdMatchWins ==
    \A t \in DOMAIN tasks :
        LET frame == tasks[t]
            tracked_order == in_flight_orders[frame.order]
            read == ListingsRead(frame)
        IN  (/\ Resolved(frame)
             /\ \E i \in DOMAIN read :
                    IsDict(read[i]) /\ ClientIdMatch(tracked_order, read[i].d))
            => frame.matched_by = "client_id"

\* C8 as stated: the resolver never resolves a tracked order to an entry
\* whose side is recognised and differs from the order's side.
NeverResolvesContradictingSide ==
    \A t \in DOMAIN tasks :
        ~IsNone(tasks[t].matched_entry)
        => ~SideContradicts(in_flight_orders[tasks[t].order], tasks[t].matched_entry.d)

\* C8 amended: an entry the resolver accepted by heuristic matching (neither
\* by client id nor by venue id) never has a recognised side that differs
\* from the order's side.
HeuristicNeverContradictsSide ==
    \A t \in DOMAIN tasks :
        tasks[t].matched_by = "heuristic"
        => ~SideContradicts(in_flight_orders[tasks[t].order], tasks[t].matched_entry.d)

\* C8 witness: the resolver read a listing with an entry like the order in
\* amount and price but of the other side, and resolved the order
\* heuristically to another entry.
HeuristicSkippedOtherSide ==
    \E t \in DOMAIN tasks :
        LET frame == tasks[t]
            tracked_order == in_flight_orders[frame.order]
            read == ListingsRead(frame)
        IN  /\ frame.matched_by = "heuristic"
            /\ \E i \in DOMAIN read :
                /\ IsDict(read[i])
                /\ read[i] # frame.matched_entry
                /\ SideContradicts(tracked_order, read[i].d)
                /\ HeuristicMatchIgnoringSide(tracked_order, read[i].d)

\* the heuristic signals an entry offers for a tracked order: the side when
\* the entry names one, the amount when both amounts are positive, the price
\* when the order has a nonzero limit price and the entry a positive price
AvailableSignals(tracked_order, d) ==
    {sig \in {"side", "amount", "price"} :
        \/ sig = "side" /\ ~IsNone(entry_side(d))
        \/ /\ sig = "amount"
           /\ decimal_from_entry_fields(d, AMOUNT_FIELDS) > 0
           /\ tracked_order.amount > 0
        \/ /\ sig = "price"
           /\ tracked_order.price > 0
           /\ decimal_from_entry_fields(d, PRICE_FIELDS) > 0}

\* the available signals on which entry and order agree
AgreeingSignals(tracked_order, d) ==
    {sig \in AvailableSignals(tracked_order, d) :
        \/ sig = "side" /\ entry_side(d).n = expected_side(tracked_order)
        \/ /\ sig = "amount"
           /\ values_close(decimal_from_entry_fields(d, AMOUNT_FIELDS), tracked_order.amount)
        \/ /\ sig = "price"
           /\ values_close(decimal_from_entry_fields(d, PRICE_FIELDS), tracked_order.price)}

\* at least 2 signals agree and no available signal contradicts
TwoSignalsAgree(tracked_order, d) ==
    /\ Cardinality(AgreeingSignals(tracked_order, d)) >= 2
    /\ AgreeingSignals(tracked_order, d) = AvailableSignals(tracked_order, d)

BTC_USDT_SYMBOL == <<"BTC", "_", "USDT">>

\* the characters of a symbol value; a value that is no str has none
symbol_text(symbol) ==
    CASE symbol.t = "text" -> symbol.q
      [] symbol.t = "str" -> <<symbol.s>>
      [] OTHER -> <<>>

\* _combine_trading_pair(*symbol.split("_", 1))
pair_of_symbol(text) ==
    LET i == FirstIdx({j \in 1..Len(text) : text[j] = "_"})
    IN  SubSeq(text, 1, i - 1) \o <<"-">> \o SubSeq(text, i + 1, Len(text))

\* trading_pair_associated_to_exchange_symbol raises: the symbol is not
\* cached and is no str, has no underscore, has an empty base or quote, or
\* its trading pair is cached under another symbol (bidict)
trading_pair_raises(map, symbol) ==
    LET text == symbol_text(symbol)
        i == FirstIdx({j \in 1..Len(text) : text[j] = "_"})
    IN  /\ ~\E e \in map : e[1] = text
        /\ \/ symbol.t \notin {"text", "str"}
           \/ i = 0
           \/ i = 1
           \/ i = Len(text)
           \/ \E e \in map : e[2] = pair_of_symbol(text)

\* trading_pair_associated_to_exchange_symbol: the map afterwards
map_after_pair(map, symbol) ==
    IF \E e \in map : e[1] = symbol_text(symbol)
    THEN map
    ELSE map \cup {<<symbol_text(symbol), pair_of_symbol(symbol_text(symbol))>>}

\* the OrderUpdate that _process_order_event builds of an entry
order_event_update(d) ==
    LET exchange_order_id ==
            PyStrOf(POr(POr(Get(d, "order_id"), Get(d, "id")), PyStr("")))
        client_order_id ==
            POr(POr(Get(d, "client_id"), Get(d, "clientOrderId")), Get(d, "client_oid"))
    IN  OrderUpdate(IF IsStr(client_order_id) THEN client_order_id ELSE PyNone,
                    IF exchange_order_id = "" THEN PyNone ELSE PyStr(exchange_order_id),
                    order_state_from_status(d), "push")

\* _process_order_event from its entry i on; st holds the tracker, the symbol
\* map, whether an exception ended the handler, and the OrderUpdates passed to
\* the tracker
RECURSIVE process_order_entries(_, _, _)
process_order_entries(st, entries, i) ==
    IF i > Len(entries) THEN st
    ELSE IF ~IsDict(entries[i]) THEN process_order_entries(st, entries, i + 1)
    ELSE LET symbol == POr(Get(entries[i].d, "market"), Get(entries[i].d, "symbol"))
         IN  IF ~Truthy(symbol) THEN process_order_entries(st, entries, i + 1)
             ELSE IF trading_pair_raises(st.map, symbol)
             THEN [st EXCEPT !.raised = TRUE]
             ELSE process_order_entries(
                    [st EXCEPT
                        !.ts = process_order_update(@, order_event_update(entries[i].d)),
                        !.map = map_after_pair(@, symbol),
                        !.forwarded = Append(@, order_event_update(entries[i].d))],
                    entries, i + 1)

\* _process_order_event that reads the first entry only
process_first_order_entry(ts, map, payload) ==
    process_order_entries([ts |-> ts, map |-> map, raised |-> FALSE, forwarded |-> <<>>],
                          IF ~IsList(payload) THEN <<payload>>
                          ELSE IF payload.q = <<>> THEN <<>>
                          ELSE <<Head(payload.q)>>, 1)

\* _process_order_event that reads the entries from the last to the first
process_order_event_backwards(ts, map, payload) ==
    LET entries == IF IsList(payload) THEN payload.q ELSE <<payload>>
    IN  process_order_entries(
            [ts |-> ts, map |-> map, raised |-> FALSE, forwarded |-> <<>>],
            [i \in DOMAIN entries |-> entries[Len(entries) + 1 - i]], 1)

\* _process_order_event
process_order_event(ts, map, payload) ==
    process_order_entries([ts |-> ts, map |-> map, raised |-> FALSE, forwarded |-> <<>>],
                          IF IsList(payload) THEN payload.q ELSE <<payload>>, 1)

\* the most user stream events handled in a run
MaxEvents == 1

\* _handle_user_stream_event for a message of method "order.update"
UserStreamOrderEvent(params) ==
    /\ UNCHANGED <<balanceVars, fillVars, streamVars>>
    /\ LET st == process_order_event(Tracker, exchange_trading_pair_map,
                                     IF Truthy(params) THEN params ELSE PyList(<<>>))
       IN  /\ events_handled < MaxEvents
           /\ events_handled' = events_handled + 1
           /\ SetTracker(st.ts)
           /\ exchange_trading_pair_map' = st.map
           /\ UNCHANGED <<current_timestamp, tasks, venueVars, faults, cancel_all_frame,
                          status_poll>>

(***************************************************************************)
(* Status polls: _request_order_status                                     *)
(***************************************************************************)
ORDER_ENTRY_KEYS == <<"order", "orders", "result", "data">>

\* _extract_order_entry
RECURSIVE extract_order_entry(_)
extract_order_entry(data) ==
    IF IsDict(data)
    THEN LET i == FirstIdx({j \in 1..Len(ORDER_ENTRY_KEYS) :
                                ORDER_ENTRY_KEYS[j] \in DOMAIN data.d})
         IN  IF i # 0 THEN extract_order_entry(data.d[ORDER_ENTRY_KEYS[i]]) ELSE data
    ELSE IF IsList(data)
    THEN (IF data.q # <<>> THEN data.q[1] ELSE PyNone)
    ELSE PyNone

\* the most status polls in a run
MaxPolls == 1

\* _request_order_status has returned or raised
PollIdle == [pc |-> "idle", polls |-> status_poll.polls]

\* _request_order_status, lines 1029-1035: up to the pending-detail request
PollStart(o) ==
    /\ UNCHANGED <<balanceVars, fillVars, streamVars>>
    /\ LET tracked_order == in_flight_orders[o]
           map == exchange_trading_pair_map
       IN  /\ status_poll.pc = "idle"
           /\ status_poll.polls < MaxPolls
           /\ ~is_done(tracked_order)
           /\ IF IsNone(tracked_order.exchange_order_id)
              THEN /\ status_poll' = [status_poll EXCEPT !.polls = @ + 1]
                   /\ UNCHANGED exchange_trading_pair_map
              ELSE /\ exchange_trading_pair_map' =
                           map_after_symbol(map, tracked_order.trading_pair)
                   /\ status_poll' =
                        IF symbol_raises(map, tracked_order.trading_pair)
                        THEN [status_poll EXCEPT !.polls = @ + 1]
                        ELSE [pc |-> "pending_detail", polls |-> status_poll.polls + 1,
                              order |-> o]
           /\ UNCHANGED <<trackerVars, current_timestamp, tasks, venueVars, faults,
                          cancel_all_frame, events_handled>>

\* _request_order_status, lines 1046-1056: the OrderUpdate of order_data, which
\* the caller forwards to the tracker
status_update(tracked_order, d) ==
    OrderUpdate(PyStr(tracked_order.client_order_id),
                PyStr(PyStrOf(POr(Get(d, "id"), tracked_order.exchange_order_id))),
                order_state_from_status(d), "poll")

\* the answer to a detail request: order_data is a dict (the update is
\* returned), None (the next endpoint is asked, or the poll raises), or
\* another value (reading it raises)
PollReply(endpoint, reply) ==
    /\ UNCHANGED <<balanceVars, fillVars, streamVars>>
    /\ LET order_data == IF reply.ok THEN extract_order_entry(reply.result) ELSE PyNone
           tracked_order == in_flight_orders[status_poll.order]
       IN  /\ status_poll.pc = endpoint
           /\ VenueAnswers(IF reply.ok THEN 0 ELSE 1)
           /\ IF reply.ok /\ IsDict(order_data)
              THEN /\ SetTracker(process_order_update(Tracker,
                           status_update(tracked_order, order_data.d)))
                   /\ status_poll' = PollIdle
              ELSE IF reply.ok /\ IsNone(order_data) /\ endpoint = "pending_detail"
              THEN /\ status_poll' = [status_poll EXCEPT !.pc = "finished_detail"]
                   /\ UNCHANGED trackerVars
              ELSE /\ status_poll' = PollIdle
                   /\ UNCHANGED trackerVars
           /\ UNCHANGED <<current_timestamp, exchange_trading_pair_map, tasks, venueVars,
                          cancel_all_frame, events_handled>>


(***************************************************************************)
(* Reconciliation of one tracked order: cancels, the user stream, status   *)
(* polls and the clock, in any interleaving.                               *)
(***************************************************************************)
\* the age in seconds the order reaches
MaxAge == 31
\* the most _execute_cancel calls in a run
MaxCancels == 1

\* the clock advances to the age of 30 seconds or beyond
Tick(later) ==
    /\ UNCHANGED <<balanceVars, fillVars, streamVars>>
    /\ /\ later > current_timestamp
       /\ current_timestamp' = later
       /\ UNCHANGED <<trackerVars, exchange_trading_pair_map, tasks, venueVars, faults,
                      callVars>>

\* a finished entry of the order itself: filled
EntryFilledClient ==
    PyDict([client_oid |-> PyStr("c1"), id |-> PyStr("7"), status |-> PyStr("DONE")])

\* push entries for the order
PushOpen ==
    PyDict([market |-> PyText(BTC_USDT_SYMBOL), client_id |-> PyStr("c1"),
            order_id |-> PyInt(7), status |-> PyInt(ORDER_EVENT_UPDATE)])
PushFilled ==
    PyDict([symbol |-> PyText(BTC_USDT_SYMBOL), id |-> PyStr("7"),
            status |-> PyInt(ORDER_EVENT_FINISH)])
PushCanceled ==
    PyDict([market |-> PyText(BTC_USDT_SYMBOL), clientOrderId |-> PyStr("c1"),
            status |-> PyStr("Cancelled")])
PushNoSymbol == PyDict([client_id |-> PyStr("c1"), status |-> PyInt(ORDER_EVENT_FINISH)])
PushBadSymbol ==
    PyDict([market |-> PyText(<<"BTCUSDT">>), client_id |-> PyStr("c1"),
            status |-> PyInt(ORDER_EVENT_FINISH)])

\* the params of the order.update messages
OrderEvents ==
    {PushOpen, PushFilled, PushCanceled, PushNoSymbol,
     PyList(<<PushFilled, PushOpen>>),
     PyList(<<EntryJunk, PushBadSymbol, PushCanceled>>),
     PyList(<<>>)}

\* results of the order detail endpoints
DetailOpen == PyDict([id |-> PyInt(7), status |-> PyStr("open"), left |-> PyStr("0.001")])
DetailFilled == PyDict([order |-> PyDict([left |-> PyStr("0.0")])])
DetailCanceled == PyList(<<PyDict([id |-> PyStr("7"), is_cancel |-> PyBool(TRUE)])>>)
DetailReplies ==
    {ReplyError}
    \cup {[ok |-> TRUE, result |-> r] :
            r \in {PyNone, PyList(<<>>), DetailOpen, DetailFilled, DetailCanceled,
                   PyList(<<EntryJunk>>)}}

ReconcileInit ==
    /\ in_flight_orders \in
            [{1} -> {TrackedOrder("c1", e, BUY, 100000, 200000, BTC_USDT) :
                        e \in {PyNone, PyStr(AckId)}}]
    /\ order_updates = [o \in {1} |-> <<>>]
    /\ lost_updates = {}
    /\ current_timestamp = RefreshFailAge
    /\ exchange_trading_pair_map = {}
    /\ tasks = <<>>
    /\ venue_pending \in {<<>>, <<EntryLikeBuy>>}
    /\ venue_finished \in {<<>>, <<EntryCanceledClient>>, <<EntryFilledClient>>}
    /\ faults = 0
    /\ cancel_all_frame = NoCall
    /\ status_poll = NoPoll
    /\ events_handled = 0
    /\ BalancesInit
    /\ FillsInit
    /\ StreamIdle

ReconcileNext ==
    \/ \E later \in (RefreshFailAge + 1)..MaxAge : Tick(later)
    \/ PlaceOrderAck(1, AckId)
    \/ Len(tasks) < MaxCancels /\ ExecuteCancel(1)
    \/ \E t \in DOMAIN tasks : PlaceCancelStart(t)
    \/ \E t \in DOMAIN tasks, reply \in {ReplyError, ReplyEntries(venue_pending)} :
            RefreshPendingReply(t, reply)
    \/ \E t \in DOMAIN tasks, reply \in {ReplyError, ReplyEntries(venue_finished)} :
            RefreshFinishedReply(t, reply)
    \/ \E t \in DOMAIN tasks, reply \in CancelReplies : PlaceCancelReply(t, reply)
    \/ \E params \in OrderEvents : UserStreamOrderEvent(params)
    \/ PollStart(1)
    \/ \E endpoint \in {"pending_detail", "finished_detail"}, reply \in DetailReplies :
            PollReply(endpoint, reply)

SpecReconcile == ReconcileInit /\ [][ReconcileNext]_vars


\* the positions of the terminal updates in the updates processed for an order
TerminalUpdates(o) ==
    {i \in DOMAIN order_updates[o] : order_updates[o][i].new_state \in TerminalStates}

VenueIdNeverReplaced ==
    [][\A o \in DOMAIN in_flight_orders :
            ~IsNone(in_flight_orders[o].exchange_order_id)
            => in_flight_orders'[o].exchange_order_id
                    = in_flight_orders[o].exchange_order_id]_vars

\* task t ends the scan of both listings without a matching entry
RefreshGivesUp(t) ==
    /\ tasks[t].pc = "finished"
    /\ tasks'[t].pc = "done"
    /\ IsNone(tasks'[t].matched_entry)

\* C9: when _refresh_exchange_order_id ends its scan of the pending and the
\* finished listing without a match, it forwards a Failed update for the order
\* if the order is older than 30 seconds; if not, it forwards nothing and
\* leaves the order as it is; in both cases the caller gets no venue id.
FailedOnlyPastAge ==
    [][\A t \in DOMAIN tasks :
            RefreshGivesUp(t)
            => LET o == tasks[t].order
                   tracked_order == in_flight_orders[o]
               IN  /\ tasks'[t].outcome = "raised"
                   /\ IF current_timestamp - tracked_order.creation_timestamp > 30
                      THEN order_updates'[o] =
                                Append(order_updates[o],
                                       OrderUpdate(PyStr(tracked_order.client_order_id),
                                                   PyNone, FAILED, "failure"))
                      ELSE /\ order_updates'[o] = order_updates[o]
                           /\ in_flight_orders'[o] = tracked_order]_vars

\* C9 witness: a resolver that found no entry failed an order of more than 30
\* seconds.
RefreshFailedTheOrder ==
    \E t \in DOMAIN tasks :
        /\ tasks[t].pc = "done"
        /\ tasks[t].refresh_attempted
        /\ tasks[t].fetched = {"pending", "finished"}
        /\ IsNone(tasks[t].matched_entry)
        /\ current_timestamp - in_flight_orders[tasks[t].order].creation_timestamp > 30
        /\ in_flight_orders[tasks[t].order].current_state = FAILED
        /\ \E i \in DOMAIN order_updates[tasks[t].order] :
                order_updates[tasks[t].order][i].origin = "failure"

\* the message of a rejection names a missing order
NotFoundClass(message) ==
    \/ Contains(LowerText(message), TxtOrderNotFound)
    \/ Contains(LowerText(message), TxtDoesNotExist)

\* C10: when the cancel request of _place_cancel is rejected with a message of
\* the not-found class, a Canceled update is forwarded for the order and
\* _place_cancel returns True; after any other rejection or error it raises
\* and no update is forwarded.
MissingOrderCancelSucceeds ==
    [][\A t \in DOMAIN tasks, reply \in CancelReplies \ {CancelAck} :
            PlaceCancelReply(t, reply)
            => LET o == tasks[t].order
               IN  IF reply.kind = "reject" /\ NotFoundClass(reply.message)
                   THEN /\ tasks'[t].outcome = "true"
                        /\ Len(order_updates'[o]) > Len(order_updates[o])
                        /\ order_updates'[o][Len(order_updates[o]) + 1] =
                                OrderUpdate(PyStr(in_flight_orders[o].client_order_id),
                                            in_flight_orders[o].exchange_order_id,
                                            CANCELED, "missing")
                   ELSE /\ tasks'[t].outcome = "raised"
                        /\ order_updates' = order_updates]_vars

\* C10 witness: the cancel of an open order with a venue id was rejected for a
\* missing order; the cancel returned True and the order is Canceled.
MissingOrderWasCanceled ==
    \E t \in DOMAIN tasks :
        LET o == tasks[t].order
        IN  /\ tasks[t].outcome = "true"
            /\ ~tasks[t].refresh_attempted
            /\ in_flight_orders[o].current_state = CANCELED
            /\ order_updates[o] # <<>>
            /\ order_updates[o][1].origin = "missing"
            /\ order_updates[o][1].exchange_order_id = tasks[t].exchange_order_id


(***************************************************************************)
(* cancel_all: batch candidates, bulk requests in chunks, individual       *)
(* fallback, under one timeout.  The frame of the coroutine has            *)
(* pc "build" (awaiting _refresh_exchange_order_id for incomplete order    *)
(* next), "batch" (awaiting the bulk request of chunk chunk), "fallback"   *)
(* (awaiting safe_gather), "returned" or "raised".                         *)
(***************************************************************************)
CancellationResult(order_id, success) == [order_id |-> order_id, success |-> success]

\* str.strip(): the strings with blanks around them, else unchanged
Strip(s) ==
    CASE s = " true " -> "true"
      [] s = "1 " -> "1"
      [] OTHER -> s

\* every value but the boolean false counts as set
is_truthy_unless_false(value) == value.t # "bool" \/ value.b

\* _is_truthy
is_truthy(value) ==
    CASE value.t = "bool" -> value.b
      [] value.t = "str" -> Lower(Strip(value.s)) \in {"true", "1", "success"}
      [] value.t = "int" -> value.n # 0
      [] value.t = "float" -> value.u # 0
      [] OTHER -> FALSE

\* an except clause for IOError only
caught_when_io_error(exception) == exception = "IOError"

\* except Exception of cancel_all: TimeoutError, IOError and the like
caught_by_cancel_all(exception) ==
    exception \in {"TimeoutError", "IOError", "ValueError", "KeyError"}

Min(a, b) == IF a < b THEN a ELSE b

\* the whole list as one chunk
chunk_list_whole(source, size) == IF source = <<>> THEN <<>> ELSE <<source>>

\* list(_chunk_list(source, size))
chunk_list(source, size) ==
    [k \in 1..((Len(source) + size - 1) \div size) |->
        SubSeq(source, (k - 1) * size + 1, Min(k * size, Len(source)))]

\* order_lookup of a chunk: the last candidate of each order_id
order_lookup(chunk) ==
    [id \in {chunk[i].order_id : i \in DOMAIN chunk} |->
        chunk[LastIdx({i \in DOMAIN chunk : chunk[i].order_id = id})].order]

\* the first value of order_lookup alone
lookup_values_first(chunk, i) == <<order_lookup(chunk)[chunk[i].order_id]>>

\* list(order_lookup.values()): in the order in which the keys were inserted
RECURSIVE lookup_values(_, _)
lookup_values(chunk, i) ==
    IF i > Len(chunk) THEN <<>>
    ELSE IF \E j \in 1..(i - 1) : chunk[j].order_id = chunk[i].order_id
    THEN lookup_values(chunk, i + 1)
    ELSE <<order_lookup(chunk)[chunk[i].order_id]>> \o lookup_values(chunk, i + 1)

\* _apply_cancel_update
apply_cancel_update(ts, o) ==
    process_order_update(ts,
        OrderUpdate(PyStr(ts.orders[o].client_order_id), PyNone, CANCELED, "batch"))

\* _execute_batch_cancel, lines 391-410: the entries of a chunk response from
\* entry i on; st holds the tracker, successful, failed and acknowledged_ids
RECURSIVE process_result_entries(_, _, _, _)
process_result_entries(st, lookup, entries, i) ==
    IF i > Len(entries) THEN st
    ELSE IF ~IsDict(entries[i]) THEN process_result_entries(st, lookup, entries, i + 1)
    ELSE LET exchange_order_id ==
                PyStrOf(POr(Get(entries[i].d, "order_id"), PyStr("")))
             acknowledged ==
                [st EXCEPT !.acknowledged_ids = @ \cup {exchange_order_id}]
         IN  IF exchange_order_id = ""
             THEN process_result_entries(st, lookup, entries, i + 1)
             ELSE IF exchange_order_id \notin DOMAIN lookup
             THEN process_result_entries(acknowledged, lookup, entries, i + 1)
             ELSE IF is_truthy(Get(entries[i].d, "result"))
             THEN process_result_entries(
                    [acknowledged EXCEPT
                        !.ts = apply_cancel_update(@, lookup[exchange_order_id]),
                        !.successful = Append(@, lookup[exchange_order_id])],
                    lookup, entries, i + 1)
             ELSE process_result_entries(
                    [acknowledged EXCEPT !.failed = Append(@, lookup[exchange_order_id])],
                    lookup, entries, i + 1)

\* the sequences that hold every element of S once: a set is iterated in an
\* unspecified order
Orderings(S) ==
    {q \in [1..Cardinality(S) -> S] : \A i, j \in DOMAIN q : i # j => q[i] # q[j]}

\* missing_ids of a chunk after its entries were read
missing_ids(lookup, st) == DOMAIN lookup \ st.acknowledged_ids

\* _execute_batch_cancel, lines 362-420: one chunk and the answer to its
\* request; missing is the order in which missing_ids is iterated
execute_chunk(frame, ts, chunk, reply, missing) ==
    LET lookup == order_lookup(chunk)
        st == process_result_entries(
                [ts |-> ts, successful |-> frame.successful, failed |-> frame.failed,
                 acknowledged_ids |-> {}],
                lookup, reply.entries, 1)
    IN  IF ~reply.ok \/ reply.entries = <<>>
        THEN [ts |-> ts,
              frame |-> [frame EXCEPT !.failed = @ \o lookup_values(chunk, 1)]]
        ELSE [ts |-> st.ts,
              frame |-> [frame EXCEPT
                            !.successful = st.successful,
                            !.failed = st.failed
                                \o [i \in DOMAIN missing |-> lookup[missing[i]]]]]


\* _build_batch_cancel_candidates, lines 330-344: order o, whose venue id is
\* exchange_order_id, becomes a candidate, or a fallback order when its symbol
\* cannot be derived; st holds the frame, the symbol map and the tasks
add_candidate(st, o, exchange_order_id, trading_pair) ==
    IF symbol_raises(st.map, trading_pair)
    THEN [st EXCEPT !.frame.fallback_orders = Append(@, o), !.frame.next = @ + 1]
    ELSE [st EXCEPT
            !.frame.candidates =
                Append(@, [order |-> o, order_id |-> PyStrOf(exchange_order_id)]),
            !.frame.next = @ + 1,
            !.map = map_after_symbol(@, trading_pair)]

\* _build_batch_cancel_candidates from incomplete order next on, up to its
\* next request (pc "build") or its return (pc "built")
RECURSIVE build_batch_cancel_candidates(_, _)
build_batch_cancel_candidates(st, orders) ==
    IF st.frame.next > Len(st.frame.incomplete_orders)
    THEN [st EXCEPT !.frame.pc = "built"]
    ELSE LET o == st.frame.incomplete_orders[st.frame.next]
         IN  IF ~IsNone(orders[o].exchange_order_id)
             THEN build_batch_cancel_candidates(
                    add_candidate(st, o, orders[o].exchange_order_id,
                                  orders[o].trading_pair),
                    orders)
             ELSE IF symbol_raises(st.map, orders[o].trading_pair)
             THEN build_batch_cancel_candidates(
                    [st EXCEPT !.frame.fallback_orders = Append(@, o),
                               !.frame.next = @ + 1],
                    orders)
             ELSE [st EXCEPT
                    !.frame.pc = "build",
                    !.map = map_after_symbol(@, orders[o].trading_pair),
                    !.tasks = Append(@, NewRefresh(o))]

\* cancel_all, lines 306-307; order_ids_pending is a set, so the failures
\* come in an unspecified order and are kept as a set
cancel_all_returns(frame) ==
    [frame EXCEPT
        !.pc = "returned",
        !.result =
            [successful |-> frame.successful_cancellations,
             failed |-> {CancellationResult(id, FALSE) : id \in frame.order_ids_pending}]]

\* the tasks that _execute_individual_cancels creates, each run to its first
\* request, from fallback order i on
RECURSIVE start_individual_cancels(_, _, _)
start_individual_cancels(st, orders, i) ==
    IF i > Len(st.frame.fallback_orders) THEN st
    ELSE LET o == st.frame.fallback_orders[i]
         IN  start_individual_cancels(
                [st EXCEPT
                    !.tasks = Append(@, place_cancel_start(NewTask(o), orders[o], st.map)),
                    !.map = map_after_symbol(@, orders[o].trading_pair),
                    !.frame.gathered = Append(@, Len(st.tasks) + 1)],
                orders, i + 1)

\* cancel_all, lines 290-295: after _execute_batch_cancel returned
after_batch(st, orders) ==
    LET ids == [i \in DOMAIN st.frame.successful |->
                    orders[st.frame.successful[i]].client_order_id]
        frame == [st.frame EXCEPT
                    !.successful_cancellations =
                        @ \o [i \in DOMAIN ids |-> CancellationResult(ids[i], TRUE)],
                    !.order_ids_pending = @ \ {ids[i] : i \in DOMAIN ids},
                    !.fallback_orders = @ \o st.frame.failed]
    IN  IF frame.fallback_orders = <<>>
        THEN [st EXCEPT !.frame = cancel_all_returns(frame)]
        ELSE start_individual_cancels(
                [st EXCEPT !.frame = [frame EXCEPT !.pc = "fallback"]], orders, 1)

\* payload_entries of a chunk: the order_id of each payload
payload_entries(chunk) == [i \in DOMAIN chunk |-> chunk[i].order_id]

\* _execute_batch_cancel, lines 361-369: the bulk request of chunk k is sent
post_chunk(frame, k) ==
    [frame EXCEPT
        !.chunk = k,
        !.requests =
            Append(@, payload_entries(
                        chunk_list(frame.candidates, BULK_CANCEL_MAX_SIZE)[k]))]

\* cancel_all, lines 287-288: after _build_batch_cancel_candidates returned
after_build(st, orders) ==
    IF st.frame.pc # "built" THEN st
    ELSE IF st.frame.candidates = <<>> THEN after_batch(st, orders)
    ELSE [st EXCEPT !.frame = post_chunk([@ EXCEPT !.pc = "batch"], 1)]

\* the incomplete orders, in the order of the tracker's collection
RECURSIVE incomplete_orders(_, _)
incomplete_orders(orders, i) ==
    IF i > Len(orders) THEN <<>>
    ELSE (IF is_done(orders[i]) THEN <<>> ELSE <<i>>) \o incomplete_orders(orders, i + 1)

\* the frame of cancel_all at line 285
NewCall(orders) ==
    [pc |-> "build", incomplete_orders |-> incomplete_orders(orders, 1),
     order_ids_pending |->
        {orders[o].client_order_id : o \in {i \in DOMAIN orders : ~is_done(orders[i])}},
     successful_cancellations |-> <<>>, next |-> 1, candidates |-> <<>>,
     fallback_orders |-> <<>>, chunk |-> 0, successful |-> <<>>, failed |-> <<>>,
     gathered |-> <<>>, timed_out |-> FALSE, requests |-> <<>>, responses |-> <<>>,
     result |-> [successful |-> <<>>, failed |-> {}]]

\* the coroutine continues after a step: the frame, the symbol map, the tasks
Continue(st) ==
    /\ cancel_all_frame' = st.frame
    /\ exchange_trading_pair_map' = st.map
    /\ tasks' = st.tasks

\* cancel_all is called and runs to its first request
CancelAllStart ==
    /\ UNCHANGED <<balanceVars, fillVars, streamVars>>
    /\ LET st == [frame |-> NewCall(in_flight_orders), map |-> exchange_trading_pair_map,
                  tasks |-> tasks]
       IN  /\ cancel_all_frame.pc = "idle"
           /\ IF st.frame.incomplete_orders = <<>>
              THEN Continue([st EXCEPT !.frame.pc = "returned"])
              ELSE Continue(after_build(build_batch_cancel_candidates(st, in_flight_orders),
                                        in_flight_orders))
           /\ UNCHANGED <<trackerVars, current_timestamp, venueVars, faults, status_poll,
                          events_handled>>

\* _build_batch_cancel_candidates, lines 318-344: _refresh_exchange_order_id
\* has returned
BuildResume ==
    /\ UNCHANGED <<balanceVars, fillVars, streamVars>>
    /\ LET refresh == tasks[Len(tasks)]
           o == refresh.order
           st == [frame |-> cancel_all_frame, map |-> exchange_trading_pair_map,
                  tasks |-> tasks]
           st1 == IF IsNone(refresh.exchange_order_id)
                  THEN [st EXCEPT !.frame.fallback_orders = Append(@, o),
                                  !.frame.next = @ + 1]
                  ELSE add_candidate(st, o, refresh.exchange_order_id,
                                     in_flight_orders[o].trading_pair)
       IN  /\ cancel_all_frame.pc = "build"
           /\ refresh.pc = "done"
           /\ Continue(after_build(build_batch_cancel_candidates(st1, in_flight_orders),
                                   in_flight_orders))
           /\ UNCHANGED <<trackerVars, current_timestamp, venueVars, faults, status_poll,
                          events_handled>>


\* entries of a bulk cancel response for candidate c
AcceptedEntry(c) == PyDict([order_id |-> PyStr(c.order_id), result |-> PyBool(TRUE)])
AcceptedAgain(c) == PyDict([order_id |-> PyStr(c.order_id), result |-> PyStr("Success")])
RejectedEntry(c) == PyDict([order_id |-> PyStr(c.order_id), result |-> PyInt(0)])
\* the flag has blanks around it
PaddedEntry(c) == PyDict([order_id |-> PyStr(c.order_id), result |-> PyStr(" true ")])
EntryUnknownId == PyDict([order_id |-> PyStr("99"), result |-> PyBool(TRUE)])
EntryNoId == PyDict([result |-> PyBool(TRUE)])

\* the answers of the venue to the bulk request of a chunk; cost is the
\* number of its members that are not simply accepted
BulkReplies(chunk) ==
    LET accepted == [i \in DOMAIN chunk |-> AcceptedEntry(chunk[i])]
        rejected == [i \in DOMAIN chunk |-> RejectedEntry(chunk[i])]
    IN  {[kind |-> "error", ok |-> FALSE, entries |-> <<>>, cost |-> Len(chunk)],
         [kind |-> "empty", ok |-> TRUE, entries |-> <<>>, cost |-> Len(chunk)],
         [kind |-> "accepted", ok |-> TRUE, entries |-> accepted, cost |-> 0],
         [kind |-> "rejected", ok |-> TRUE, entries |-> rejected, cost |-> Len(chunk)],
         [kind |-> "duplicated", ok |-> TRUE,
          entries |-> accepted \o <<AcceptedAgain(chunk[1])>>, cost |-> 1],
         [kind |-> "contradictory", ok |-> TRUE,
          entries |-> accepted \o <<RejectedEntry(chunk[1])>>, cost |-> 1],
         [kind |-> "missing", ok |-> TRUE,
          entries |-> <<EntryJunk, EntryUnknownId, EntryNoId>> \o Tail(accepted),
          cost |-> 1],
         [kind |-> "junk", ok |-> TRUE, entries |-> <<EntryJunk>>, cost |-> Len(chunk)],
         [kind |-> "padded", ok |-> TRUE,
          entries |-> <<PaddedEntry(chunk[1])>> \o Tail(accepted), cost |-> 1]}

\* the ids of a chunk that its response does not name
missing_ids_of(chunk, reply) ==
    IF ~reply.ok \/ reply.entries = <<>> THEN {}
    ELSE missing_ids(order_lookup(chunk),
            process_result_entries(
                [ts |-> Tracker, successful |-> <<>>, failed |-> <<>>,
                 acknowledged_ids |-> {}],
                order_lookup(chunk), reply.entries, 1))

\* the chunk whose bulk request is awaited
CurrentChunk ==
    chunk_list(cancel_all_frame.candidates, BULK_CANCEL_MAX_SIZE)[cancel_all_frame.chunk]

\* _execute_batch_cancel, lines 361-422: the answer reply to the bulk request
\* of the current chunk; the next chunk is requested, or cancel_all goes on
ChunkReply(reply) ==
    /\ UNCHANGED <<balanceVars, fillVars, streamVars>>
    /\ /\ cancel_all_frame.pc = "batch"
       /\ LET chunks == chunk_list(cancel_all_frame.candidates, BULK_CANCEL_MAX_SIZE)
              chunk == chunks[cancel_all_frame.chunk]
          IN  \E missing \in Orderings(missing_ids_of(chunk, reply)) :
                   LET done == execute_chunk(cancel_all_frame, Tracker, chunk, reply, missing)
                       st == [frame |->
                                   [done.frame EXCEPT
                                       !.responses =
                                           Append(@, [ok |-> reply.ok,
                                                      entries |-> reply.entries])],
                              map |-> exchange_trading_pair_map, tasks |-> tasks]
                   IN  /\ VenueAnswers(reply.cost)
                       /\ SetTracker(done.ts)
                       /\ IF cancel_all_frame.chunk < Len(chunks)
                          THEN Continue([st EXCEPT
                                   !.frame = post_chunk(@, cancel_all_frame.chunk + 1)])
                          ELSE Continue(after_batch(st, done.ts.orders))
       /\ UNCHANGED <<current_timestamp, venueVars, status_poll, events_handled>>

\* the bulk request of the current chunk is answered, within the faults that
\* the venue has left
BatchReply ==
    /\ cancel_all_frame.pc = "batch"
    /\ \E reply \in {r \in BulkReplies(CurrentChunk) : faults + r.cost <= MaxFaults} :
            ChunkReply(reply)

\* _execute_individual_cancels, lines 444-450, and cancel_all, lines 296-307:
\* safe_gather has every result; a task that returned True gave the client
\* order id, the others an exception or None
FallbackDone ==
    /\ UNCHANGED <<balanceVars, fillVars, streamVars>>
    /\ /\ cancel_all_frame.pc = "fallback"
       /\ \A i \in DOMAIN cancel_all_frame.gathered :
               tasks[cancel_all_frame.gathered[i]].pc = "done"
       /\ LET returned == SelectSeq(cancel_all_frame.gathered,
                                    LAMBDA t : tasks[t].outcome = "true")
              successful_ids ==
                   [i \in DOMAIN returned |->
                       in_flight_orders[tasks[returned[i]].order].client_order_id]
          IN  cancel_all_frame' =
                   cancel_all_returns(
                       [cancel_all_frame EXCEPT
                           !.successful_cancellations =
                               @ \o [i \in DOMAIN successful_ids |->
                                       CancellationResult(successful_ids[i], TRUE)],
                           !.order_ids_pending =
                               @ \ {successful_ids[i] : i \in DOMAIN successful_ids}])
       /\ UNCHANGED <<trackerVars, current_timestamp, exchange_trading_pair_map, tasks,
                      venueVars, faults, status_poll, events_handled>>

\* the timeout of cancel_all expires while the coroutine awaits a request or
\* safe_gather: the awaited coroutines are cancelled, and the TimeoutError
\* reaches the except clause of line 299
Timeout ==
    /\ UNCHANGED <<balanceVars, fillVars, streamVars>>
    /\ /\ cancel_all_frame.pc \in {"build", "batch", "fallback"}
       /\ tasks' =
            [t \in DOMAIN tasks |->
               IF tasks[t].pc = "done" THEN tasks[t]
               ELSE [tasks[t] EXCEPT !.pc = "done", !.outcome = "cancelled"]]
       /\ cancel_all_frame' =
            IF caught_by_cancel_all("TimeoutError")
            THEN cancel_all_returns([cancel_all_frame EXCEPT !.timed_out = TRUE])
            ELSE [cancel_all_frame EXCEPT !.pc = "raised", !.timed_out = TRUE]
       /\ UNCHANGED <<trackerVars, current_timestamp, exchange_trading_pair_map, venueVars,
                      faults, status_poll, events_handled>>

\* the tracked orders of a cancel_all run
NumOrders == 25

ClientIds ==
    <<"c1", "c2", "c3", "c4", "c5", "c6", "c7", "c8", "c9",
      "c10", "c11", "c12", "c13", "c14", "c15", "c16", "c17", "c18",
      "c19", "c20", "c21", "c22", "c23", "c24", "c25", "c26", "c27">>
VenueIds ==
    <<"7", "20", "21", "22", "23", "24", "25", "26", "27",
      "28", "29", "30", "31", "32", "33", "34", "35", "36",
      "37", "38", "39", "40", "41", "42", "43", "44", "45">>

\* the first incomplete of the orders are open, the others are canceled;
\* order 1 has the venue id first_id, order 2 the trading pair second_pair
CancelAllOrders(incomplete, first_id, second_pair) ==
    [o \in 1..NumOrders |->
        [TrackedOrder(ClientIds[o], IF o = 1 THEN first_id ELSE PyStr(VenueIds[o]),
                      BUY, 100000, 200000, IF o = 2 THEN second_pair ELSE BTC_USDT)
            EXCEPT !.current_state = IF o <= incomplete THEN OPEN ELSE CANCELED]]

CancelAllInit ==
    /\ \E incomplete \in {0, 1, 2, BULK_CANCEL_MAX_SIZE, BULK_CANCEL_MAX_SIZE + 1, NumOrders},
          first_id \in {PyNone, PyStr(VenueIds[1])},
          second_pair \in {BTC_USDT, <<"BTCUSDT">>} :
            in_flight_orders = CancelAllOrders(incomplete, first_id, second_pair)
    /\ order_updates = [o \in 1..NumOrders |-> <<>>]
    /\ lost_updates = {}
    /\ current_timestamp = 0
    /\ exchange_trading_pair_map = {}
    /\ tasks = <<>>
    /\ venue_pending \in {<<>>, <<EntryClientId>>}
    /\ venue_finished = <<>>
    /\ faults = 0
    /\ cancel_all_frame = NoCall
    /\ status_poll = NoPoll
    /\ events_handled = 0
    /\ BalancesInit
    /\ FillsInit
    /\ StreamIdle

CancelAllNext ==
    \/ CancelAllStart
    \/ BuildResume
    \/ BatchReply
    \/ FallbackDone
    \/ Timeout
    \/ PlaceOrderAck(1, AckId)
    \/ \E t \in DOMAIN tasks, reply \in {ReplyError, ReplyEntries(venue_pending)} :
            RefreshPendingReply(t, reply)
    \/ \E t \in DOMAIN tasks, reply \in {ReplyError, ReplyEntries(venue_finished)} :
            RefreshFinishedReply(t, reply)
    \/ \E t \in DOMAIN tasks, reply \in CancelReplies : PlaceCancelReply(t, reply)

SpecCancelAll == CancelAllInit /\ [][CancelAllNext]_vars


\* the number of results that cancel_all returned for a client order id
ResultsFor(id) ==
    Cardinality({i \in DOMAIN cancel_all_frame.result.successful :
                    cancel_all_frame.result.successful[i].order_id = id})
    + Cardinality({r \in cancel_all_frame.result.failed : r.order_id = id})

\* the client order ids of the orders that were incomplete at the call
IncompleteIds ==
    {in_flight_orders[cancel_all_frame.incomplete_orders[i]].client_order_id :
        i \in DOMAIN cancel_all_frame.incomplete_orders}

\* the venue accepted the cancel of order o in a bulk response, and the
\* Canceled update of _apply_cancel_update was forwarded
ConfirmedInBatch(o) ==
    \E i \in DOMAIN order_updates[o] : order_updates[o][i].origin = "batch"

\* C1: the list that cancel_all returns has exactly one CancellationResult
\* for every order that was incomplete at the call, and none for another id.
OneResultPerOrder ==
    cancel_all_frame.pc = "returned"
    => /\ \A id \in IncompleteIds : ResultsFor(id) = 1
       /\ \A i \in DOMAIN cancel_all_frame.result.successful :
            cancel_all_frame.result.successful[i].order_id \in IncompleteIds
       /\ \A r \in cancel_all_frame.result.failed : r.order_id \in IncompleteIds

\* C2: when cancel_all returns after its timeout expired, every order whose
\* cancel a bulk response had confirmed is reported as a success and not as a
\* failure.
ConfirmedBeforeTimeoutSucceeds ==
    (cancel_all_frame.pc = "returned" /\ cancel_all_frame.timed_out)
    => \A i \in DOMAIN cancel_all_frame.incomplete_orders :
            LET o == cancel_all_frame.incomplete_orders[i]
                id == in_flight_orders[o].client_order_id
            IN  ConfirmedInBatch(o)
                => /\ \E k \in DOMAIN cancel_all_frame.result.successful :
                        cancel_all_frame.result.successful[k]
                            = CancellationResult(id, TRUE)
                   /\ CancellationResult(id, FALSE) \notin cancel_all_frame.result.failed

\* C3: cancel_all never raises, and when it has returned, its result has a
\* success or a failure for every order that was incomplete at the call.
CancelAllNeverRaises ==
    /\ cancel_all_frame.pc # "raised"
    /\ cancel_all_frame.pc = "returned"
       => \A id \in IncompleteIds : ResultsFor(id) >= 1

\* C3 witness: cancel_all returned after a bulk request failed, an individual
\* cancel raised and the timeout expired, with the failures in its result.
ReturnedAfterFailures ==
    /\ cancel_all_frame.pc = "returned"
    /\ cancel_all_frame.timed_out
    /\ faults > 0
    /\ cancel_all_frame.failed # <<>>
    /\ \E i \in DOMAIN cancel_all_frame.gathered :
            tasks[cancel_all_frame.gathered[i]].outcome = "raised"
    /\ cancel_all_frame.result.failed # {}


\* the flags that count as set: boolean true, the strings "true", "1" and
\* "success" in any letter case, a nonzero number
ListedFlag(value) ==
    \/ value.t = "bool" /\ value.b
    \/ value.t = "str" /\ Lower(value.s) \in {"true", "1", "success"}
    \/ value.t = "int" /\ value.n # 0
    \/ value.t = "float" /\ value.u # 0

\* the same, a string being read without the blanks around it
ListedFlagStripped(value) ==
    \/ ListedFlag(value)
    \/ value.t = "str" /\ ListedFlag(PyStr(Strip(value.s)))

\* the direct candidates of order o, as indexes of candidates
CandidatesOf(o) ==
    {j \in DOMAIN cancel_all_frame.candidates : cancel_all_frame.candidates[j].order = o}

\* the number of the bulk request that names candidate j
ChunkOf(j) == ((j - 1) \div BULK_CANCEL_MAX_SIZE) + 1

\* the entries of the response to the request of candidate j that carry the
\* venue id requested for it
EntriesFor(j) ==
    IF ChunkOf(j) \notin DOMAIN cancel_all_frame.responses THEN {}
    ELSE LET entries == cancel_all_frame.responses[ChunkOf(j)].entries
         IN  {entries[i] : i \in {i \in DOMAIN entries :
                /\ IsDict(entries[i])
                /\ PyStrOf(POr(Get(entries[i].d, "order_id"), PyStr("")))
                        = cancel_all_frame.candidates[j].order_id}}

\* order o was accepted as a success of the batch
BatchSuccess(o) ==
    \/ \E i \in DOMAIN cancel_all_frame.successful : cancel_all_frame.successful[i] = o
    \/ ConfirmedInBatch(o)

\* C11 as stated: an order is a success of a bulk chunk, and gets the
\* Canceled update, only if the response to its request has an entry with the
\* venue id requested for it whose flag is boolean true, "true", "1" or
\* "success" in any letter case, or a nonzero number.
SuccessOnlyOnListedFlag ==
    cancel_all_frame.pc # "idle"
    => \A o \in DOMAIN in_flight_orders :
            BatchSuccess(o)
            => \E j \in CandidatesOf(o) : \E e \in EntriesFor(j) :
                    ListedFlag(Get(e.d, "result"))

\* C11 amended: an order is a success of a bulk chunk, and gets the Canceled
\* update, only if the response to its request has an entry with the venue id
\* requested for it whose flag, a string being read without the blanks around
\* it, is boolean true, "true", "1" or "success" in any letter case, or a
\* nonzero number.
SuccessOnlyOnTruthyFlag ==
    cancel_all_frame.pc # "idle"
    => \A o \in DOMAIN in_flight_orders :
            BatchSuccess(o)
            => \E j \in CandidatesOf(o) : \E e \in EntriesFor(j) :
                    ListedFlagStripped(Get(e.d, "result"))

\* C11 witness: a bulk response was read in which one member is accepted on a
\* flag with blanks around it and another response rejected a member, which
\* is no success.
PaddedFlagAccepted ==
    /\ cancel_all_frame.pc # "idle"
    /\ \E o \in DOMAIN in_flight_orders :
            /\ ConfirmedInBatch(o)
            /\ \E j \in CandidatesOf(o) : \E e \in EntriesFor(j) :
                    Get(e.d, "result") = PyStr(" true ")
            /\ \A j \in CandidatesOf(o) : \A e \in EntriesFor(j) :
                    ~ListedFlag(Get(e.d, "result"))


\* _execute_batch_cancel returned: every bulk request was answered
BatchDone ==
    /\ cancel_all_frame.pc # "idle"
    /\ cancel_all_frame.candidates # <<>>
    /\ Len(cancel_all_frame.responses)
            = Len(chunk_list(cancel_all_frame.candidates, BULK_CANCEL_MAX_SIZE))

\* order o is one of the orders handed to _execute_individual_cancels
InFallback(o) ==
    \E i \in DOMAIN cancel_all_frame.fallback_orders :
        cancel_all_frame.fallback_orders[i] = o

\* C12: a member of a bulk chunk is passed to the individual fallback exactly
\* when the response of its chunk has no entry with its venue id or has an
\* entry with its venue id whose flag is not truthy, and a member accepted as
\* a batch success is not passed to the fallback.
FallbackExactlyOnFailure ==
    BatchDone
    => \A j \in DOMAIN cancel_all_frame.candidates :
            LET o == cancel_all_frame.candidates[j].order
            IN  /\ InFallback(o)
                    <=> \/ EntriesFor(j) = {}
                        \/ \E e \in EntriesFor(j) :
                                ~ListedFlagStripped(Get(e.d, "result"))
                /\ BatchSuccess(o) => ~InFallback(o)


\* the least number of groups of at most BULK_CANCEL_MAX_SIZE that hold n
CeilOfBatches(n) ==
    CHOOSE c \in 0..n :
        /\ c * BULK_CANCEL_MAX_SIZE >= n
        /\ (c - 1) * BULK_CANCEL_MAX_SIZE < n

\* the requests one after the other
RECURSIVE Flatten(_)
Flatten(qs) == IF qs = <<>> THEN <<>> ELSE Head(qs) \o Flatten(Tail(qs))

\* _execute_batch_cancel sent requests and the last one was answered
BatchReturned ==
    /\ cancel_all_frame.pc \in {"fallback", "returned"}
    /\ cancel_all_frame.requests # <<>>
    /\ Len(cancel_all_frame.responses) = Len(cancel_all_frame.requests)

\* C13: for n direct candidates _execute_batch_cancel issues exactly
\* ceil(n/10) bulk requests, no request names more than 10 orders, and every
\* candidate is named in exactly one request: the requests, one after the
\* other, are the candidates in their order.
OneRequestPerChunk ==
    cancel_all_frame.pc # "idle"
    => /\ \A k \in DOMAIN cancel_all_frame.requests :
            Len(cancel_all_frame.requests[k]) \in 1..BULK_CANCEL_MAX_SIZE
       /\ Len(cancel_all_frame.requests)
            <= CeilOfBatches(Len(cancel_all_frame.candidates))
       /\ BatchReturned
            => /\ Len(cancel_all_frame.requests)
                    = CeilOfBatches(Len(cancel_all_frame.candidates))
               /\ Flatten(cancel_all_frame.requests)
                    = [j \in DOMAIN cancel_all_frame.candidates |->
                            cancel_all_frame.candidates[j].order_id]

\* C13 witness: 25 direct candidates were cancelled with 3 bulk requests.
ThreeRequestsFor25 ==
    /\ BatchReturned
    /\ Len(cancel_all_frame.candidates) = 25
    /\ Len(cancel_all_frame.requests) = 3

\* the cancel tasks (_place_cancel) of order o
CancelTasksOf(o) ==
    {t \in DOMAIN tasks : tasks[t].caller = "_place_cancel" /\ tasks[t].order = o}

\* C37: no cancel request goes to the venue for an order without a venue id:
\* a _place_cancel that awaits its cancel request has a venue id for it, one
\* whose order had no venue id and whose resolver returned none has raised
\* without a request, and every order named in a bulk request has a venue
\* id, which is the id the request names.
NoCancelWithoutVenueId ==
    /\ \A t \in DOMAIN tasks :
            tasks[t].caller = "_place_cancel"
            => /\ tasks[t].pc = "post" => ~IsNone(tasks[t].exchange_order_id)
               /\ (tasks[t].pc = "done" /\ IsNone(tasks[t].exchange_order_id))
                    => tasks[t].outcome \in {"raised", "cancelled"}
    /\ cancel_all_frame.pc # "idle"
        => \A j \in DOMAIN cancel_all_frame.candidates :
                LET c == cancel_all_frame.candidates[j]
                IN  /\ ~IsNone(in_flight_orders[c.order].exchange_order_id)
                    /\ c.order_id = PyStrOf(in_flight_orders[c.order].exchange_order_id)

\* C37 witness: cancel_all returned after bulk requests; order 1 had no venue
\* id and the resolver found none in both listings, so it is in no bulk
\* request, and its _place_cancel raised without a cancel request.
CancelRaisedWithoutVenueId ==
    /\ cancel_all_frame.pc = "returned"
    /\ cancel_all_frame.requests # <<>>
    /\ IsNone(in_flight_orders[1].exchange_order_id)
    /\ \A j \in DOMAIN cancel_all_frame.candidates :
            cancel_all_frame.candidates[j].order # 1
    /\ \E t \in CancelTasksOf(1) :
            /\ tasks[t].outcome = "raised"
            /\ tasks[t].refresh_attempted
            /\ tasks[t].fetched = {"pending", "finished"}
            /\ IsNone(tasks[t].exchange_order_id)


(***************************************************************************)
(* Bulk requests that fail as a whole: cancel_all for orders that all have *)
(* a venue id, up to the await of the individual fallback and the timeout. *)
(***************************************************************************)
\* the answers to the bulk request of a chunk, without a limit on faults
WholeChunkReplies(chunk) ==
    {[r EXCEPT !.cost = 0] : r \in {r \in BulkReplies(chunk) : r.kind # "junk"}}

BatchFailuresInit ==
    /\ \E incomplete \in {BULK_CANCEL_MAX_SIZE, BULK_CANCEL_MAX_SIZE + 1, NumOrders},
          second_pair \in {BTC_USDT, <<"BTCUSDT">>} :
            in_flight_orders = CancelAllOrders(incomplete, PyStr(VenueIds[1]), second_pair)
    /\ order_updates = [o \in 1..NumOrders |-> <<>>]
    /\ lost_updates = {}
    /\ current_timestamp = 0
    /\ exchange_trading_pair_map = {}
    /\ tasks = <<>>
    /\ venue_pending = <<>>
    /\ venue_finished = <<>>
    /\ faults = 0
    /\ cancel_all_frame = NoCall
    /\ status_poll = NoPoll
    /\ events_handled = 0
    /\ BalancesInit
    /\ FillsInit
    /\ StreamIdle

BatchFailuresNext ==
    \/ CancelAllStart
    \/ /\ cancel_all_frame.pc = "batch"
       /\ \E reply \in WholeChunkReplies(CurrentChunk) : ChunkReply(reply)
    \/ Timeout

SpecBatchFailures == BatchFailuresInit /\ [][BatchFailuresNext]_vars

\* the chunks of the candidates
Chunks == chunk_list(cancel_all_frame.candidates, BULK_CANCEL_MAX_SIZE)

\* the bulk request of chunk k raised, or its response was empty
ChunkFailed(k) ==
    ~cancel_all_frame.responses[k].ok \/ cancel_all_frame.responses[k].entries = <<>>

\* C34: the bulk requests are issued one at a time in chunk order, and a
\* chunk whose request raises or whose response is empty is not fatal: the
\* next chunk is requested as long as the timeout has not expired, and once
\* every chunk was answered all members of a failed chunk are among the
\* orders of the individual fallback.
FailedChunkNotFatal ==
    cancel_all_frame.pc # "idle"
    => /\ Len(cancel_all_frame.responses) <= Len(cancel_all_frame.requests)
       /\ Len(cancel_all_frame.requests) <= Len(cancel_all_frame.responses) + 1
       /\ \A k \in DOMAIN cancel_all_frame.requests :
            cancel_all_frame.requests[k] = payload_entries(Chunks[k])
       /\ (~cancel_all_frame.timed_out
              /\ Len(cancel_all_frame.responses) < Len(Chunks))
            => /\ cancel_all_frame.pc = "batch"
               /\ Len(cancel_all_frame.requests) = Len(cancel_all_frame.responses) + 1
       /\ Len(cancel_all_frame.responses) = Len(Chunks)
            => \A k \in DOMAIN Chunks :
                    ChunkFailed(k)
                    => \A i \in DOMAIN Chunks[k] : InFallback(Chunks[k][i].order)

\* C34 witness: of three chunks the request of the first raised and the
\* response of the second was empty; the third was requested and answered,
\* and the 20 members of the first two are in the individual fallback.
ThirdChunkAfterTwoFailures ==
    /\ cancel_all_frame.pc = "fallback"
    /\ Len(cancel_all_frame.responses) = 3
    /\ ~cancel_all_frame.responses[1].ok
    /\ cancel_all_frame.responses[2].ok
    /\ cancel_all_frame.responses[2].entries = <<>>
    /\ cancel_all_frame.responses[3].entries # <<>>
    /\ \A k \in 1..2 : \A i \in DOMAIN Chunks[k] : InFallback(Chunks[k][i].order)
    /\ Len(cancel_all_frame.fallback_orders) >= 2 * BULK_CANCEL_MAX_SIZE



(***************************************************************************)
(* The state of an order read from a venue payload: one tracked order, a   *)
(* payload of the venue for it, a status poll and a push message.          *)
(***************************************************************************)
\* the values of status, is_cancel and left in the payloads
StatusValues ==
    {PyNone, PyInt(0), PyInt(ORDER_EVENT_PUT), PyInt(ORDER_EVENT_UPDATE),
     PyInt(ORDER_EVENT_FINISH), PyInt(4), PyBool(TRUE), PyFloat(3 * Unit),
     PyStr("FILLED"), PyStr("filled"), PyStr("Finished"), PyStr("DONE"), PyStr("Success"),
     PyStr("CANCELED"), PyStr("Cancelled"), PyStr("cancel"), PyStr("open"), PyStr("3")}
CancelFlags == {PyNone, PyBool(TRUE), PyBool(FALSE), PyInt(1), PyInt(0), PyStr("true")}
LeftValues == {PyNone, PyStr("0"), PyStr("0.5"), PyInt(0), PyFloat(0)}
\* the keys under which a payload gives the remaining amount
RemainingFields == {"left", "remain", "unfilled_amount", "remain_amount"}

\* a payload of the venue for the order, as a detail answer or a push entry
StatusPayload(status, is_cancel, field, left) ==
    PyDict([key \in {"market", "client_oid", "id", "status", "is_cancel", field} |->
                CASE key = "market" -> PyText(BTC_USDT_SYMBOL)
                  [] key = "client_oid" -> PyStr("c1")
                  [] key = "id" -> PyStr("7")
                  [] key = "status" -> status
                  [] key = "is_cancel" -> is_cancel
                  [] key = field -> left])

StatusInit ==
    /\ in_flight_orders =
            [o \in {1} |-> TrackedOrder("c1", PyStr("7"), BUY, 100000, 200000, BTC_USDT)]
    /\ order_updates = [o \in {1} |-> <<>>]
    /\ lost_updates = {}
    /\ current_timestamp = 0
    /\ exchange_trading_pair_map = {}
    /\ tasks = <<>>
    /\ \E status \in StatusValues, is_cancel \in CancelFlags :
         \E field \in RemainingFields, left \in LeftValues :
            venue_pending = <<StatusPayload(status, is_cancel, field, left)>>
    /\ venue_finished = <<>>
    /\ faults = 0
    /\ cancel_all_frame = NoCall
    /\ status_poll = NoPoll
    /\ events_handled = 0
    /\ BalancesInit
    /\ FillsInit
    /\ StreamIdle

StatusNext ==
    \/ PollStart(1)
    \/ PollReply("pending_detail", [ok |-> TRUE, result |-> PyList(venue_pending)])
    \/ UserStreamOrderEvent(venue_pending[1])

SpecStatus == StatusInit /\ [][StatusNext]_vars

\* the state the rule table gives a payload, from its first rule down to the
\* cancel flag; "unspecified" when none of these rules applies
RuleState(d) ==
    LET status == Get(d, "status")
    IN  IF IsPyInt(status) /\ IntOf(status) \in {1, 2} THEN OPEN
        ELSE IF IsPyInt(status) /\ IntOf(status) = 3 THEN FILLED
        ELSE IF IsStr(status)
                /\ Lower(status.s) \in {"filled", "finished", "done", "success"}
        THEN FILLED
        ELSE IF IsStr(status) /\ Lower(status.s) \in {"cancelled", "canceled", "cancel"}
        THEN CANCELED
        ELSE IF IsTrueOrOne(Get(d, "is_cancel")) THEN CANCELED
        ELSE "unspecified"

\* the updates that a poll or a push message made of the payload
PayloadUpdates ==
    {order_updates[1][i] : i \in {i \in DOMAIN order_updates[1] :
                                    order_updates[1][i].origin \in {"poll", "push"}}}

\* C14: the state of an update made of a venue payload is the state of the
\* first applicable rule: integer status 1 or 2 Open and 3 Filled; else a
\* status string that says filled Filled and one that says cancelled Canceled,
\* in any letter case; else a set cancel flag Canceled.  A status that decides
\* wins over the cancel flag.
StateFollowsRuleOrder ==
    \A u \in PayloadUpdates :
        RuleState(venue_pending[1].d) # "unspecified"
        => u.new_state = RuleState(venue_pending[1].d)

\* C14 witness: a payload with the integer status of an open order and a set
\* cancel flag was read by a poll and by a push message, and both updates say
\* Open.
StatusWonOverCancelFlag ==
    /\ Get(venue_pending[1].d, "status") \in {PyInt(1), PyInt(2)}
    /\ IsTrueOrOne(Get(venue_pending[1].d, "is_cancel"))
    /\ {u.origin : u \in PayloadUpdates} = {"poll", "push"}
    /\ \A u \in PayloadUpdates : u.new_state = OPEN

\* the remaining-amount fields that a payload carries
RemainingPresent(d) == {f \in RemainingFields : ~IsNone(Get(d, f))}

\* the value is zero, as a number or as the text of a number
IsZero(v) ==
    \/ v.t = "int" /\ v.n = 0
    \/ v.t = "float" /\ v.u = 0
    \/ v.t = "str" /\ DecimalOfText(v.s) = 0

\* C27: for a payload to which no status rule and no cancel-flag rule
\* applies, a remaining-amount field that is present and zero, as the number
\* 0 or as a string such as "0", gives Filled, and a payload without a
\* remaining-amount field gives Open.
ZeroRemainingIsFilled ==
    \A u \in PayloadUpdates :
        LET d == venue_pending[1].d
        IN  RuleState(d) = "unspecified"
            => /\ (\E f \in RemainingPresent(d) : IsZero(Get(d, f)))
                  => u.new_state = FILLED
               /\ RemainingPresent(d) = {} => u.new_state = OPEN


(***************************************************************************)
(* The user stream: order.update and asset.update messages                 *)
(***************************************************************************)
\* str.upper(): the strings that have a lower-case letter, else unchanged
Upper(s) ==
    CASE s = "btc" -> "BTC"
      [] s = "usdt" -> "USDT"
      [] s = "eth" -> "ETH"
      [] s = "detail" -> "DETAIL"
      [] OTHER -> s

\* table[key] = value
Put(table, key, value) ==
    [k \in DOMAIN table \cup {key} |-> IF k = key THEN value ELSE table[k]]

\* a push update that sets nothing but the assets it names, dropping the others
process_balance_entry_replacing(st, d) ==
    LET asset == Upper(POr(POr(Get(d, "asset"), Get(d, "currency")), Get(d, "coin")).s)
        available ==
            decimal_from_value(
                POr(POr(POr(Get(d, "available"), Get(d, "available_balance")),
                        Get(d, "free")), PyStr("0")))
    IN  [st EXCEPT
            !.available = Put(EmptyTable, asset, available),
            !.balances = Put(EmptyTable, asset, available)]

\* _process_balance_event, lines 956-960: a dict entry d that names an asset
process_balance_entry(st, d) ==
    LET asset == Upper(POr(POr(Get(d, "asset"), Get(d, "currency")), Get(d, "coin")).s)
        available ==
            decimal_from_value(
                POr(POr(POr(Get(d, "available"), Get(d, "available_balance")),
                        Get(d, "free")), PyStr("0")))
        stated == POr(POr(Get(d, "total"), Get(d, "total_balance")), Get(d, "balance"))
        total == IF Truthy(stated) THEN decimal_from_value(stated) ELSE available
    IN  [st EXCEPT
            !.available = Put(@, asset, available),
            !.balances = Put(@, asset, total)]

\* _process_balance_event from its entry i on; st holds the two tables and
\* whether an exception ended the handler (upper() of a name that is no str)
RECURSIVE process_balance_entries(_, _, _)
process_balance_entries(st, entries, i) ==
    IF i > Len(entries) THEN st
    ELSE IF ~IsDict(entries[i]) THEN process_balance_entries(st, entries, i + 1)
    ELSE LET d == entries[i].d
             name == POr(POr(POr(Get(d, "asset"), Get(d, "currency")), Get(d, "coin")),
                         PyStr(""))
         IN  IF ~IsStr(name) THEN [st EXCEPT !.raised = TRUE]
             ELSE IF name.s = "" THEN process_balance_entries(st, entries, i + 1)
             ELSE process_balance_entries(process_balance_entry(st, d), entries, i + 1)

\* _process_balance_event
process_balance_event(st, payload) ==
    process_balance_entries(st, IF IsList(payload) THEN payload.q ELSE <<payload>>, 1)

\* _handle_user_stream_event: method and params of a message, given as a
\* dict or as a list [method, payload]; None when it is neither
message_method(event_message) ==
    IF IsDict(event_message) THEN Get(event_message.d, "method")
    ELSE IF IsList(event_message) /\ Len(event_message.q) >= 2 THEN event_message.q[1]
    ELSE PyNone
message_params(event_message) ==
    LET params == IF IsDict(event_message) THEN Get(event_message.d, "params")
                  ELSE IF IsList(event_message) /\ Len(event_message.q) >= 2
                  THEN event_message.q[2]
                  ELSE PyNone
    IN  POr(params, PyList(<<>>))

\* _handle_user_stream_event; st holds the tracker, the symbol map, the two
\* balance tables and whether an exception ended the handler
handle_user_stream_event(st, event_message) ==
    LET method == message_method(event_message)
        params == message_params(event_message)
    IN  IF method = PyStr("asset.update") THEN process_balance_event(st, params)
        ELSE IF method = PyStr("order.update")
        THEN LET done == process_order_event(st.ts, st.map, params)
             IN  [st EXCEPT !.ts = done.ts, !.map = done.map, !.raised = done.raised,
                            !.forwarded = done.forwarded]
        ELSE st

\* the most messages of the user stream in a run
MaxMessages == 2

\* a listener that an exception of the handler ends
awaits_after_reraise(raised) == IF raised THEN "stopped" ELSE "get"

\* CancelledError leaves _user_stream_event_listener
listener_cancelled(frame) ==
    [frame EXCEPT !.awaits = "cancelled", !.raised = "CancelledError"]

\* where _user_stream_event_listener goes on after the handler returned or
\* raised: an exception is logged and the listener sleeps before it reads the
\* queue again
awaits_after(raised) == IF raised THEN "sleep" ELSE "get"

\* _user_stream_event_listener: the next message of the queue is handled; an
\* exception of the handler is logged
UserStreamEventListener(event_message) ==
    LET st == handle_user_stream_event(
                [ts |-> Tracker, map |-> exchange_trading_pair_map,
                 balances |-> account_balances,
                 available |-> account_available_balances, raised |-> FALSE,
                 forwarded |-> <<>>],
                event_message)
    IN  /\ user_stream_frame.awaits = "get"
        /\ user_stream_queue.taken < Len(user_stream_queue.put)
        /\ event_message = user_stream_queue.put[user_stream_queue.taken + 1]
        /\ user_stream_queue' = [user_stream_queue EXCEPT !.taken = @ + 1]
        /\ events_handled' = events_handled + 1
        /\ SetTracker(st.ts)
        /\ exchange_trading_pair_map' = st.map
        /\ account_balances' = st.balances
        /\ account_available_balances' = st.available
        /\ user_stream_frame' =
                [pc |-> IF st.raised THEN "logged" ELSE "handled",
                 event_message |-> event_message, forwarded |-> st.forwarded,
                 awaits |-> awaits_after(st.raised), raised |-> "none",
                 history |-> user_stream_frame.history \o st.forwarded,
                 exceptions |-> user_stream_frame.exceptions
                                + (IF st.raised THEN 1 ELSE 0)]
        /\ UNCHANGED <<current_timestamp, tasks, venueVars, faults, cancel_all_frame,
                       status_poll, empty_balance_logged, trading_pairs, venue_balances,
                       update_balances_frame, fillVars, data_source, ws_connections,
                       ping_tasks, listen_frame, stream_clock>>

\* _user_stream_event_listener after an exception was logged: its sleep ends
\* and it reads the queue again
ListenerSleepEnds ==
    /\ user_stream_frame.awaits = "sleep"
    /\ user_stream_frame' = [user_stream_frame EXCEPT !.awaits = "get"]
    /\ UNCHANGED <<trackerVars, current_timestamp, exchange_trading_pair_map, tasks,
                   venueVars, faults, callVars, account_balances,
                   account_available_balances, empty_balance_logged, trading_pairs,
                   venue_balances, update_balances_frame, fillVars, streamVars>>

\* the task of _user_stream_event_listener is cancelled while it waits for
\* the queue or sleeps: CancelledError leaves the coroutine
ListenerCancelled ==
    /\ user_stream_frame.awaits \in {"get", "sleep"}
    /\ user_stream_frame' = listener_cancelled(user_stream_frame)
    /\ UNCHANGED <<trackerVars, current_timestamp, exchange_trading_pair_map, tasks,
                   venueVars, faults, callVars, account_balances,
                   account_available_balances, empty_balance_logged, trading_pairs,
                   venue_balances, update_balances_frame, fillVars, streamVars>>

\* push entries for another order and for the tracked order once more
PushUnknown ==
    PyDict([market |-> PyText(BTC_USDT_SYMBOL), client_id |-> PyStr("c9"),
            order_id |-> PyInt(9), status |-> PyInt(ORDER_EVENT_PUT)])

\* a push entry that names the market and the state of an order only
PushNoIds == PyDict([market |-> PyText(BTC_USDT_SYMBOL), status |-> PyStr("filled")])
\* a push entry whose client id is a number
PushNumericClientId ==
    PyDict([market |-> PyText(BTC_USDT_SYMBOL), client_id |-> PyInt(5),
            status |-> PyInt(ORDER_EVENT_UPDATE)])

\* push entries of balances
BalanceBtc ==
    PyDict([asset |-> PyStr("btc"), available |-> PyStr("1"), total |-> PyStr("2")])
BalanceBtcLess == PyDict([asset |-> PyStr("BTC"), available |-> PyStr("0.5")])
BalanceUsdt == PyDict([currency |-> PyStr("USDT"), free |-> PyStr("0.5")])
BalanceEth ==
    PyDict([coin |-> PyStr("ETH"), available_balance |-> PyInt(0),
            balance |-> PyStr("1.5")])
BalanceNoAsset == PyDict([available |-> PyStr("1")])
BalanceBadAsset == PyDict([asset |-> PyInt(5), available |-> PyStr("1")])

\* the params of the order.update and of the asset.update messages
StreamOrderParams ==
    {PushOpen, PushFilled, PushCanceled, PushUnknown, PushNoSymbol, PyNone,
     PyList(<<PushFilled, PushOpen>>),
     PyList(<<PushOpen, PushOpen>>),
     PyList(<<EntryJunk, PushNoSymbol, PushCanceled, PushUnknown>>),
     PyList(<<PushOpen, PushBadSymbol, PushCanceled>>),
     PushNoIds, PushNumericClientId}
StreamBalanceParams ==
    {BalanceBtc, BalanceBtcLess, BalanceUsdt, BalanceNoAsset, EntryJunk,
     PyList(<<BalanceUsdt, BalanceEth>>),
     PyList(<<BalanceBtcLess, BalanceBadAsset, BalanceUsdt>>)}

\* the sequences of at most n members of S
QueuesOf(S, n) == UNION {[1..k -> S] : k \in 0..n}

\* the messages of the user stream
StreamMessages ==
    {PyDict([method |-> PyStr("order.update"), params |-> p]) : p \in StreamOrderParams}
    \cup {PyList(<<PyStr("asset.update"), p>>) : p \in StreamBalanceParams}
    \cup {PyDict([method |-> PyStr("asset.update"), params |-> BalanceEth]),
          PyList(<<PyStr("order.update"), PushCanceled>>),
          PyDict([method |-> PyStr("ping"), params |-> PushFilled]),
          PyList(<<PyStr("order.update")>>),
          EntryJunk}

UserStreamInit ==
    /\ in_flight_orders \in
            [{1} -> {TrackedOrder("c1", e, BUY, 100000, 200000, BTC_USDT) :
                        e \in {PyNone, PyStr(AckId)}}]
    /\ order_updates = [o \in {1} |-> <<>>]
    /\ lost_updates = {}
    /\ current_timestamp = 0
    /\ exchange_trading_pair_map = {}
    /\ tasks = <<>>
    /\ venue_pending = <<>>
    /\ venue_finished = <<>>
    /\ faults = 0
    /\ cancel_all_frame = NoCall
    /\ status_poll = NoPoll
    /\ events_handled = 0
    /\ BalancesInit
    /\ FillsInit
    /\ data_source = NewDataSource("user_stream")
    /\ ws_connections = <<>>
    /\ ping_tasks = <<>>
    /\ listen_frame = NoListener
    /\ stream_clock = 1
    /\ user_stream_queue \in
            {[put |-> q, taken |-> 0] : q \in QueuesOf(StreamMessages, MaxMessages)}

UserStreamNext ==
    \/ \E event_message \in StreamMessages : UserStreamEventListener(event_message)
    \/ ListenerSleepEnds

SpecUserStream == UserStreamInit /\ [][UserStreamNext]_vars


\* the entries of the order.update message that was handled last
OrderEntriesHandled ==
    IF user_stream_frame.pc = "idle"
       \/ message_method(user_stream_frame.event_message) # PyStr("order.update")
    THEN <<>>
    ELSE LET params == message_params(user_stream_frame.event_message)
         IN  IF IsList(params) THEN params.q ELSE <<params>>

\* an entry that is a mapping and has a market symbol
HasSymbol(entry) ==
    IsDict(entry) /\ Truthy(POr(Get(entry.d, "market"), Get(entry.d, "symbol")))

\* an entry whose market symbol cannot be split into base and quote
BadSymbol(entry) ==
    /\ HasSymbol(entry)
    /\ trading_pair_raises({}, POr(Get(entry.d, "market"), Get(entry.d, "symbol")))

\* a well-formed entry: a mapping with a market symbol of base and quote
WellFormed(entry) == HasSymbol(entry) /\ ~BadSymbol(entry)

\* the OrderUpdates of the well-formed entries of the message, in their order
UpdatesDue ==
    LET named == SelectSeq(OrderEntriesHandled, WellFormed)
    IN  [k \in DOMAIN named |-> order_event_update(named[k].d)]

MalformedEntryOnlySkipped ==
    user_stream_frame.pc # "idle" => user_stream_frame.forwarded = UpdatesDue


\* the assets that the entries of an asset.update message name
AssetsNamed(event_message) ==
    IF message_method(event_message) # PyStr("asset.update") THEN {}
    ELSE LET params == message_params(event_message)
             entries == IF IsList(params) THEN params.q ELSE <<params>>
             name(d) == POr(POr(Get(d, "asset"), Get(d, "currency")), Get(d, "coin"))
         IN  {Upper(name(entries[i].d).s) :
                i \in {i \in DOMAIN entries :
                        IsDict(entries[i]) /\ IsStr(name(entries[i].d))}}

\* the OrderUpdates passed to the order tracker so far
UpdatesForwarded ==
    lost_updates
    \cup UNION {{order_updates[o][i] : i \in DOMAIN order_updates[o]} :
                    o \in DOMAIN order_updates}
    \cup (IF user_stream_frame.pc = "idle" THEN {}
          ELSE {user_stream_frame.forwarded[i] : i \in DOMAIN user_stream_frame.forwarded})

\* C28: every OrderUpdate passed to the order tracker carries a client order
\* id or a venue order id.
EveryUpdateCarriesAnId ==
    \A u \in UpdatesForwarded :
        ~IsNone(u.client_order_id) \/ ~IsNone(u.exchange_order_id)

\* C19: a push balance update changes the available and the total balance of
\* the assets it names and nothing else: every other asset keeps both values,
\* and no asset is removed from either table.
BalancePushPatchesNamedOnly ==
    [][\A event_message \in StreamMessages :
        UserStreamEventListener(event_message)
        => /\ DOMAIN account_balances \subseteq DOMAIN account_balances'
           /\ DOMAIN account_available_balances
                \subseteq DOMAIN account_available_balances'
           /\ \A asset \in DOMAIN account_balances \ AssetsNamed(event_message) :
                account_balances'[asset] = account_balances[asset]
           /\ \A asset \in DOMAIN account_available_balances
                            \ AssetsNamed(event_message) :
                account_available_balances'[asset] = account_available_balances[asset]
      ]_vars

\* C19 witness: after a push update for USDT, a push update that names BTC
\* alone was handled; BTC has the values of the update and USDT the values it
\* had.
BtcPatchedUsdtKept ==
    /\ user_stream_frame.pc = "handled"
    /\ user_stream_frame.event_message = PyList(<<PyStr("asset.update"), BalanceBtcLess>>)
    /\ DOMAIN account_balances = {"BTC", "USDT"}
    /\ account_available_balances["BTC"] = Unit \div 2
    /\ account_balances["USDT"] = Unit \div 2
    /\ account_available_balances["USDT"] = Unit \div 2


(***************************************************************************)
(* Balance snapshots: _update_balances.  The await of the request is the   *)
(* first statement, and what follows the answer runs without suspension.   *)
(***************************************************************************)
\* the keys of the payloads, in the order in which a mapping lists them
KeyOrder ==
    <<"asset", "currency", "coin", "symbol", "available", "free", "available_balance",
      "balance", "total", "freeze", "frozen", "locked", "other_freeze", "other_locked",
      "detail", "message", "BTC", "ETH", "USDT">>

\* payload.items(): the keys of a mapping in its order
items(d) == SelectSeq(KeyOrder, LAMBDA key : key \in DOMAIN d)

\* balance_keys of _is_balance_entry
BALANCE_KEYS ==
    {"available", "available_balance", "balance", "free", "total", "total_balance",
     "freeze", "frozen", "locked", "other_freeze"}

\* _is_balance_entry
is_balance_entry(candidate) ==
    \E key \in BALANCE_KEYS : key \in DOMAIN candidate /\ ~IsDict(candidate[key])

\* entry_dict of _collect_balance_entries; parent_asset "" is a false one
entry_dict(payload, parent_asset) ==
    IF parent_asset # "" /\ "asset" \notin DOMAIN payload
    THEN Put(payload, "asset", PyStr(parent_asset))
    ELSE payload

\* _collect_balance_entries
RECURSIVE collect_balance_entries(_, _)
collect_balance_entries(payload, parent_asset) ==
    LET RECURSIVE of_list(_, _)
        of_list(q, i) ==
            IF i > Len(q) THEN <<>>
            ELSE collect_balance_entries(q[i], parent_asset) \o of_list(q, i + 1)
        RECURSIVE of_items(_, _)
        of_items(keys, i) ==
            IF i > Len(keys) THEN <<>>
            ELSE collect_balance_entries(payload.d[keys[i]], keys[i])
                    \o of_items(keys, i + 1)
    IN  IF IsList(payload) THEN of_list(payload.q, 1)
        ELSE IF IsDict(payload)
        THEN (IF is_balance_entry(payload.d)
              THEN <<PyDict(entry_dict(payload.d, parent_asset))>>
              ELSE <<>>)
             \o of_items(items(payload.d), 1)
        ELSE <<>>

\* _split_trading_pair raises: no hyphen, or nothing before or after the last
split_raises(trading_pair) ==
    LET i == LastIdx({j \in 1..Len(trading_pair) : trading_pair[j] = "-"})
    IN  i = 0 \/ i = 1 \/ i = Len(trading_pair)

\* _split_trading_pair: base and quote, for pairs of one token each
split_trading_pair(trading_pair) == <<trading_pair[1], trading_pair[Len(trading_pair)]>>

\* sorted(assets)
AssetOrder == <<"BTC", "DETAIL", "ETH", "USDT">>

\* fallback_assets of _build_balance_fallback_entries
fallback_assets(pairs) ==
    UNION {{split_trading_pair(pairs[i])[1], split_trading_pair(pairs[i])[2]} :
            i \in {i \in DOMAIN pairs : ~split_raises(pairs[i])}}

\* fallback entries for the base assets alone
build_balance_fallback_entries_of_base(pairs) ==
    LET assets == {split_trading_pair(pairs[i])[1] :
                    i \in {i \in DOMAIN pairs : ~split_raises(pairs[i])}}
        sorted == SelectSeq(AssetOrder, LAMBDA asset : asset \in assets)
    IN  [k \in DOMAIN sorted |->
            PyDict([asset |-> PyStr(sorted[k]), available |-> PyStr("0")])]

\* _build_balance_fallback_entries: the entries returned
build_balance_fallback_entries(pairs) ==
    LET sorted == SelectSeq(AssetOrder, LAMBDA asset : asset \in fallback_assets(pairs))
    IN  [k \in DOMAIN sorted |->
            PyDict([asset |-> PyStr(sorted[k]), available |-> PyStr("0")])]

\* Decimal(str(value)); -1 when it raises
decimal_of_str(value) ==
    CASE value.t = "str" -> DecimalOfText(value.s)
      [] value.t = "int" -> value.n * Unit
      [] value.t = "float" -> value.u
      [] OTHER -> -1

\* _update_balances, line 692: the asset name of an entry, before upper()
entry_asset(d) ==
    POr(POr(POr(POr(Get(d, "asset"), Get(d, "currency")), Get(d, "coin")),
            Get(d, "symbol")), PyStr(""))

\* _update_balances, lines 695-697: available, frozen and other_frozen
entry_available(d) ==
    decimal_of_str(POr(POr(POr(Get(d, "available"), Get(d, "free")),
                           Get(d, "available_balance")), PyStr("0")))
entry_frozen(d) ==
    decimal_of_str(POr(POr(POr(Get(d, "freeze"), Get(d, "frozen")), Get(d, "locked")),
                       PyStr("0")))
entry_other_frozen(d) ==
    decimal_of_str(POr(POr(Get(d, "other_freeze"), Get(d, "other_locked")), PyStr("0")))

\* _update_balances, lines 691-701: the entries from entry i on; st holds the
\* two tables, remote_assets and whether an exception ended the call
RECURSIVE apply_balance_entries(_, _, _)
apply_balance_entries(st, entries, i) ==
    IF i > Len(entries) THEN st
    ELSE LET d == entries[i].d
             name == entry_asset(d)
         IN  IF ~IsStr(name) THEN [st EXCEPT !.raised = TRUE]
             ELSE IF name.s = "" THEN apply_balance_entries(st, entries, i + 1)
             ELSE IF entry_available(d) < 0 \/ entry_frozen(d) < 0
                     \/ entry_other_frozen(d) < 0
             THEN [st EXCEPT !.raised = TRUE]
             ELSE apply_balance_entries(
                    [st EXCEPT
                        !.available = Put(@, Upper(name.s), entry_available(d)),
                        !.balances =
                            Put(@, Upper(name.s),
                                entry_available(d) + entry_frozen(d)
                                    + entry_other_frozen(d)),
                        !.remote_assets = @ \cup {Upper(name.s)}],
                    entries, i + 1)

\* _update_balances, lines 709-714: the fallback entries, when no entry named
\* an asset
RECURSIVE apply_fallback_entries(_, _, _)
apply_fallback_entries(st, entries, i) ==
    IF i > Len(entries) THEN st
    ELSE apply_fallback_entries(
            [st EXCEPT
                !.available = Put(@, entries[i].d.asset.s, 0),
                !.balances = Put(@, entries[i].d.asset.s, 0),
                !.remote_assets = @ \cup {entries[i].d.asset.s}],
            entries, i + 1)

\* no asset is stale
stale_assets_none(local_assets, remote_assets) == {}

\* _update_balances, line 715: local_assets.difference(remote_assets)
stale_assets(local_assets, remote_assets) == local_assets \ remote_assets

\* table.pop(asset, None) for the assets given
Pop(table, assets) == [asset \in DOMAIN table \ assets |-> table[asset]]

\* _update_balances after the answer: balances is the result of the answer;
\* st holds the two tables and _empty_balance_logged
update_balances(st, pairs, result) ==
    LET balances == POr(result, PyDict(EmptyTable))
        local_assets == DOMAIN st.balances
        collected == collect_balance_entries(balances, "")
        fallback == build_balance_fallback_entries(pairs)
        balance_entries == IF collected = <<>> THEN fallback ELSE collected
        logged == IF collected # <<>> THEN FALSE
                  ELSE IF fallback # <<>> THEN TRUE
                  ELSE st.logged
        looped == apply_balance_entries(
                    [balances |-> st.balances, available |-> st.available,
                     remote_assets |-> {}, raised |-> FALSE],
                    balance_entries, 1)
        named == IF looped.raised \/ looped.remote_assets # {} THEN looped
                 ELSE apply_fallback_entries(looped, fallback, 1)
        stale == IF named.raised THEN {}
                 ELSE stale_assets(local_assets, named.remote_assets)
        unnamed == ~looped.raised /\ looped.remote_assets = {}
    IN  [balances |-> Pop(named.balances, stale),
         available |-> Pop(named.available, stale),
         logged |-> IF unnamed /\ fallback # <<>> THEN TRUE ELSE logged,
         warnings |->
            (IF collected = <<>> /\ fallback # <<>> /\ ~st.logged THEN 1 ELSE 0)
            + (IF unnamed /\ fallback # <<>> /\ ~logged THEN 1 ELSE 0),
         frame |-> [pc |-> IF named.raised THEN "raised" ELSE "returned",
                    local_assets |-> local_assets,
                    remote_assets |-> named.remote_assets,
                    balance_entries |-> collected]]

\* the most balance snapshots in a run
MaxSnapshots == 3

\* the snapshots requested so far
Snapshots == IF update_balances_frame.pc = "idle" THEN 0 ELSE update_balances_frame.calls

\* _update_balances: the request fails, or is answered with a result
UpdateBalances(reply) ==
    LET done == update_balances(
                    [balances |-> account_balances,
                     available |-> account_available_balances,
                     logged |-> empty_balance_logged],
                    trading_pairs, reply.result)
    IN  /\ Snapshots < MaxSnapshots
        /\ IF reply.ok
           THEN /\ account_balances' = done.balances
                /\ account_available_balances' = done.available
                /\ empty_balance_logged' = done.logged
                /\ venue_balances' = reply.result
                /\ update_balances_frame' =
                        [pc |-> done.frame.pc, calls |-> Snapshots + 1,
                         warnings |-> update_balances_frame.warnings + done.warnings,
                         local_assets |-> done.frame.local_assets,
                         remote_assets |-> done.frame.remote_assets,
                         balance_entries |-> done.frame.balance_entries]
           ELSE /\ update_balances_frame' =
                        [pc |-> "raised", calls |-> Snapshots + 1,
                         warnings |-> update_balances_frame.warnings,
                         local_assets |-> {}, remote_assets |-> {},
                         balance_entries |-> <<>>]
                /\ venue_balances' = PyNone
                /\ UNCHANGED <<account_balances, account_available_balances,
                               empty_balance_logged>>
        /\ UNCHANGED <<trackerVars, current_timestamp, exchange_trading_pair_map, tasks,
                       venueVars, faults, callVars, trading_pairs, user_stream_frame,
                       fillVars, streamVars>>

\* results of the balance endpoint
SnapshotFlat ==
    PyList(<<PyDict([asset |-> PyStr("BTC"), available |-> PyStr("1"),
                     freeze |-> PyStr("0.5")]),
             PyDict([currency |-> PyStr("usdt"), free |-> PyStr("2")])>>)
SnapshotByAsset ==
    PyDict([BTC |-> PyDict([available |-> PyStr("1"), freeze |-> PyStr("0.5"),
                            other_freeze |-> PyStr("0.5")]),
            ETH |-> PyDict([available |-> PyStr("2")])])
SnapshotBtcOnly ==
    PyList(<<PyDict([coin |-> PyStr("BTC"), available_balance |-> PyStr("0.5")])>>)
SnapshotNested ==
    PyList(<<PyDict([asset |-> PyStr("BTC"), available |-> PyStr("1"),
                     detail |-> PyDict([free |-> PyStr("2")])])>>)
SnapshotWrapped ==
    PyDict([balance |-> PyDict([USDT |-> PyDict([total |-> PyStr("2"),
                                                 available |-> PyStr("1.5")])])])
SnapshotTwice ==
    PyList(<<PyDict([asset |-> PyStr("BTC"), available |-> PyStr("1")]),
             PyDict([asset |-> PyStr("btc"), available |-> PyStr("2")])>>)
SnapshotNoEntry == PyDict([message |-> PyStr("ok")])
SnapshotJunk == PyList(<<PyStr("junk"), PyInt(5)>>)
SnapshotNoAsset == PyList(<<PyDict([available |-> PyStr("1")])>>)
SnapshotBadAmount ==
    PyList(<<PyDict([asset |-> PyStr("BTC"), available |-> PyStr("1")]),
             PyDict([asset |-> PyStr("ETH"), available |-> PyStr("abc")])>>)
SnapshotBadAsset == PyList(<<PyDict([asset |-> PyInt(5), available |-> PyStr("1")])>>)

BalanceResults ==
    {SnapshotFlat, SnapshotByAsset, SnapshotBtcOnly, SnapshotNested, SnapshotWrapped,
     SnapshotTwice, SnapshotNoEntry, SnapshotJunk, SnapshotNoAsset, SnapshotBadAmount,
     SnapshotBadAsset, PyList(<<>>), PyDict(EmptyTable), PyNone}

\* the answers to the balance request
BalanceReplies ==
    {[ok |-> FALSE, result |-> PyNone]}
    \cup {[ok |-> TRUE, result |-> r] : r \in BalanceResults}

\* the configured trading pairs
ETH_USDT == <<"ETH", "-", "USDT">>
ETH_BTC == <<"ETH", "-", "BTC">>
PairConfigurations ==
    {<<>>, <<BTC_USDT>>, <<BTC_USDT, ETH_USDT, ETH_BTC>>, <<<<"BTCUSDT">>, ETH_USDT>>}

BalancesSpecInit ==
    /\ in_flight_orders = <<>>
    /\ order_updates = <<>>
    /\ lost_updates = {}
    /\ current_timestamp = 0
    /\ exchange_trading_pair_map = {}
    /\ tasks = <<>>
    /\ venue_pending = <<>>
    /\ venue_finished = <<>>
    /\ faults = 0
    /\ cancel_all_frame = NoCall
    /\ status_poll = NoPoll
    /\ events_handled = 0
    /\ user_stream_frame = NoMessage
    /\ account_balances = EmptyTable
    /\ account_available_balances = EmptyTable
    /\ empty_balance_logged = FALSE
    /\ trading_pairs \in PairConfigurations
    /\ venue_balances = PyNone
    /\ update_balances_frame = NoSnapshot
    /\ FillsInit
    /\ StreamIdle

BalancesNext == \E reply \in BalanceReplies : UpdateBalances(reply)

SpecBalances == BalancesSpecInit /\ [][BalancesNext]_vars


\* the entries that the normalizer finds in the result of the last snapshot
EntriesFound == collect_balance_entries(POr(venue_balances, PyDict(EmptyTable)), "")

\* the positions of the entries found that name asset
EntriesNaming(asset) ==
    {i \in DOMAIN EntriesFound :
        /\ IsStr(entry_asset(EntriesFound[i].d))
        /\ Upper(entry_asset(EntriesFound[i].d).s) = asset}

\* the assets found in the snapshot
AssetsFound ==
    {Upper(entry_asset(EntriesFound[i].d).s) :
        i \in {i \in DOMAIN EntriesFound : IsStr(entry_asset(EntriesFound[i].d))}}
    \ {""}

ConfiguredAssets ==
    UNION {{trading_pairs[i][1], trading_pairs[i][Len(trading_pairs[i])]} :
            i \in {i \in DOMAIN trading_pairs : Len(trading_pairs[i]) = 3}}

\* C18: when a nonempty balance payload has no recognisable balance entry,
\* the snapshot leaves a zero available and a zero total balance for exactly
\* the base and quote assets of the configured trading pairs.
FallbackZeroBalances ==
    (/\ update_balances_frame.pc = "returned"
     /\ Truthy(venue_balances)
     /\ EntriesFound = <<>>)
    => /\ DOMAIN account_balances = ConfiguredAssets
       /\ DOMAIN account_available_balances = ConfiguredAssets
       /\ \A asset \in ConfiguredAssets :
            account_balances[asset] = 0 /\ account_available_balances[asset] = 0

\* C18 witness: with three configured pairs, a nonempty payload without a
\* balance entry came after a snapshot with another asset, and the tables
\* hold zero for BTC, ETH and USDT alone.
FallbackForThreePairs ==
    /\ update_balances_frame.pc = "returned"
    /\ Len(trading_pairs) = 3
    /\ venue_balances = SnapshotNoEntry
    /\ "DETAIL" \in update_balances_frame.local_assets
    /\ DOMAIN account_balances = {"BTC", "ETH", "USDT"}
    /\ empty_balance_logged

\* an entry found has a numeric field that cannot be parsed
UnparsableEntries ==
    {i \in DOMAIN EntriesFound :
        \/ entry_available(EntriesFound[i].d) < 0
        \/ entry_frozen(EntriesFound[i].d) < 0
        \/ entry_other_frozen(EntriesFound[i].d) < 0}

\* C32: a balance snapshot in which a numeric field of some asset cannot be
\* parsed is not aborted: the call returns, every asset of the snapshot is in
\* both tables and no asset absent from the snapshot is left in them.
UnparsableBalanceCountsAsZero ==
    (/\ update_balances_frame.pc # "idle"
     /\ UnparsableEntries # {}
     /\ \A i \in DOMAIN EntriesFound : IsStr(entry_asset(EntriesFound[i].d)))
    => /\ update_balances_frame.pc = "returned"
       /\ DOMAIN account_balances = AssetsFound
       /\ DOMAIN account_available_balances = AssetsFound

\* C33: over the balance snapshots of a session, the degradation to zero
\* balances is logged at most once.
DegradationLoggedOnce == update_balances_frame.warnings <= 1

\* C20: normalization is idempotent: _collect_balance_entries of the list it
\* returned for a payload returns the same list of records.
NormalizationIdempotent ==
    collect_balance_entries(PyList(EntriesFound), "") = EntriesFound


(***************************************************************************)
(* The fills of an order: _all_trade_updates_for_order                     *)
(***************************************************************************)
ENTRY_KEYS == <<"result", "data", "pairs", "symbols">>

\* _extract_entries
RECURSIVE extract_entries(_)
extract_entries(exchange_info) ==
    LET RECURSIVE from_key(_)
        from_key(k) ==
            IF k > Len(ENTRY_KEYS) THEN <<exchange_info>>
            ELSE IF ENTRY_KEYS[k] \notin DOMAIN exchange_info.d THEN from_key(k + 1)
            ELSE LET value == exchange_info.d[ENTRY_KEYS[k]]
                 IN  IF IsList(value) THEN value.q
                     ELSE IF IsDict(value) THEN extract_entries(value)
                     ELSE from_key(k + 1)
    IN  IF IsDict(exchange_info) THEN from_key(1)
        ELSE IF IsList(exchange_info) THEN exchange_info.q
        ELSE <<>>

\* the largest power of ten up to Unit that divides n
RECURSIVE TenFactor(_, _)
TenFactor(n, g) ==
    IF g < Unit /\ n % (g * 10) = 0 THEN TenFactor(n, g * 10) ELSE g

\* lhs / rhs of two Decimals, in units: (lhs * Unit) \div rhs, with the common
\* power of ten of Unit and rhs taken out first to stay within 32 bits
decimal_quotient(lhs, rhs) ==
    (lhs * (Unit \div TenFactor(rhs, 1))) \div (rhs \div TenFactor(rhs, 1))
\* lhs * rhs of two Decimals, in units: (lhs * rhs) \div Unit, likewise
decimal_product(lhs, rhs) ==
    (lhs * (rhs \div TenFactor(rhs, 1))) \div (Unit \div TenFactor(rhs, 1))

\* lines 1000-1001: base_amount and price of a deal
deal_base_amount(d) ==
    decimal_from_value(POr(POr(Get(d, "amount"), Get(d, "number")), Get(d, "deal_stock")))
deal_price(d) == decimal_from_value(Get(d, "price"))

\* lines 1004-1005: the price of the fill
fill_price(d) ==
    IF deal_price(d) <= 0
    THEN decimal_quotient(
            decimal_from_value(POr(Get(d, "avg_price"), Get(d, "deal_money"))),
            deal_base_amount(d))
    ELSE deal_price(d)

\* line 1006: quote_amount
fill_quote_amount(d) ==
    IF Truthy(Get(d, "deal_money")) THEN decimal_from_value(Get(d, "deal_money"))
    ELSE decimal_product(fill_price(d), deal_base_amount(d))

\* line 1015: trade_id, as a text; idx counts from 0
fill_trade_id(order, d, idx) ==
    IF Truthy(POr(Get(d, "id"), Get(d, "deal_id")))
    THEN <<PyStrOf(POr(Get(d, "id"), Get(d, "deal_id")))>>
    ELSE <<order.exchange_order_id.s, "-", Digits[idx + 1]>>

\* TradeUpdate of the deal at position idx of the entries
TradeUpdate(order, d, idx) ==
    [trade_id |-> fill_trade_id(order, d, idx),
     client_order_id |-> order.client_order_id,
     exchange_order_id |-> order.exchange_order_id.s,
     fill_price |-> fill_price(d),
     fill_base_amount |-> deal_base_amount(d),
     fill_quote_amount |-> fill_quote_amount(d),
     fee_amount |-> decimal_from_value(Get(d, "fee")),
     idx |-> idx]

\* lines 997-1025: the loop over deal_entries, from position i on
RECURSIVE trade_updates_of(_, _, _)
trade_updates_of(order, deal_entries, i) ==
    IF i > Len(deal_entries) THEN <<>>
    ELSE IF ~IsDict(deal_entries[i]) \/ deal_base_amount(deal_entries[i].d) <= 0
    THEN trade_updates_of(order, deal_entries, i + 1)
    ELSE <<TradeUpdate(order, deal_entries[i].d, i - 1)>>
         \o trade_updates_of(order, deal_entries, i + 1)

\* the most _all_trade_updates_for_order calls in a run
MaxFillPolls == 2

\* _all_trade_updates_for_order: the request fails, or is answered with the
\* deals of the venue
AllTradeUpdatesForOrder(o, reply) ==
    LET order == in_flight_orders[o]
        map == exchange_trading_pair_map
        calls == fills_frame.calls + 1
        ended(pc) == [fills_frame EXCEPT !.pc = pc, !.calls = calls,
                                         !.deal_entries = <<>>, !.trade_updates = <<>>]
    IN  /\ fills_frame.calls < MaxFillPolls
        /\ IF IsNone(order.exchange_order_id)
           THEN /\ fills_frame' = ended("returned")
                /\ UNCHANGED exchange_trading_pair_map
           ELSE /\ exchange_trading_pair_map' = map_after_symbol(map, order.trading_pair)
                /\ fills_frame' =
                     IF symbol_raises(map, order.trading_pair) \/ ~reply.ok
                     THEN ended("raised")
                     ELSE LET deal_entries == extract_entries(reply.result)
                              trade_updates == trade_updates_of(order, deal_entries, 1)
                          IN  [pc |-> "returned", calls |-> calls,
                               deal_entries |-> deal_entries,
                               trade_updates |-> trade_updates,
                               polls |-> Append(fills_frame.polls,
                                                [deal_entries |-> deal_entries,
                                                 trade_updates |-> trade_updates])]
        /\ UNCHANGED <<trackerVars, current_timestamp, tasks, venueVars, faults, callVars,
                       balanceVars, venue_deals, streamVars>>

\* deals of the order: with a price; without a price; with a zero price; with
\* an average price; without an amount; without money
DealPriced ==
    PyDict([id |-> PyInt(4), amount |-> PyStr("0.5"), price |-> PyStr("0.002"),
            deal_money |-> PyStr("0.001"), fee |-> PyStr("0.001")])
DealNoPrice ==
    PyDict([deal_id |-> PyStr("5"), number |-> PyStr("2"), deal_money |-> PyStr("0.002")])
DealZeroPrice ==
    PyDict([amount |-> PyStr("0.5"), price |-> PyStr("0"), deal_money |-> PyStr("0.001")])
DealAvgPrice ==
    PyDict([id |-> PyInt(6), deal_stock |-> PyInt(2), avg_price |-> PyStr("0.001"),
            deal_money |-> PyStr("0.002")])
DealNoAmount == PyDict([id |-> PyInt(8), price |-> PyStr("0.002")])
DealNoMoney == PyDict([amount |-> PyStr("2")])

\* results of the order-deals endpoint
DealResults ==
    {PyList(<<>>), PyNone, DealPriced, DealAvgPrice,
     PyList(<<DealPriced>>),
     PyList(<<DealNoPrice, DealZeroPrice>>),
     PyList(<<DealZeroPrice, DealNoMoney>>),
     PyList(<<DealAvgPrice, DealPriced>>),
     PyList(<<DealNoAmount, EntryJunk, DealNoPrice>>),
     PyList(<<DealPriced, DealNoPrice, DealZeroPrice>>),
     PyDict([data |-> PyList(<<DealNoPrice, DealPriced>>)]),
     PyDict([result |-> PyNone, data |-> PyDict([pairs |-> PyList(<<DealZeroPrice>>)])])}

FillOrders ==
    {TrackedOrder("c1", e, side, 100000, 200000, BTC_USDT) :
        e \in {PyNone, PyStr(AckId)}, side \in {BUY, SELL}}

FillsSpecInit ==
    /\ in_flight_orders \in [{1} -> FillOrders]
    /\ order_updates = [o \in {1} |-> <<>>]
    /\ lost_updates = {}
    /\ current_timestamp = 0
    /\ exchange_trading_pair_map = {}
    /\ tasks = <<>>
    /\ venue_pending = <<>>
    /\ venue_finished = <<>>
    /\ faults = 0
    /\ cancel_all_frame = NoCall
    /\ status_poll = NoPoll
    /\ events_handled = 0
    /\ BalancesInit
    /\ venue_deals \in DealResults
    /\ fills_frame = NoFillsCall
    /\ StreamIdle

\* the orders in which the venue may list the deals of an order: oldest
\* first or newest first
Reversed(q) == [i \in DOMAIN q |-> q[Len(q) + 1 - i]]
DealListings(deals) ==
    IF IsList(deals) THEN {deals, PyList(Reversed(deals.q))} ELSE {deals}

FillsNext ==
    \E reply \in {[ok |-> FALSE]}
                  \cup {[ok |-> TRUE, result |-> r] : r \in DealListings(venue_deals)} :
        AllTradeUpdatesForOrder(1, reply)

SpecFills == FillsSpecInit /\ [][FillsNext]_vars

\* the deal entries of the answer that the last call read
DealEntriesRead == fills_frame.deal_entries

\* C30: the TradeUpdate of a fill entry with a nonzero amount whose price
\* field is absent or zero has the fill price deal_money divided by amount,
\* whatever other fields the entry carries.
FillPriceIsMoneyOverAmount ==
    fills_frame.pc = "returned"
    => \A i \in DOMAIN fills_frame.trade_updates :
          LET u == fills_frame.trade_updates[i]
              d == DealEntriesRead[u.idx + 1].d
          IN  (IsNone(Get(d, "price")) \/ decimal_from_value(Get(d, "price")) = 0)
              => u.fill_price
                    = decimal_quotient(decimal_from_value(Get(d, "deal_money")),
                                       u.fill_base_amount)

\* the deal entry that a trade update of an answered call was made of
DealOf(poll, u) == poll.deal_entries[u.idx + 1]

\* C31: across repeated polls of an order's fills that return the same fill
\* entries, each fill gets the same trade id: two trade updates made of the
\* same deal entry, in whichever polls, carry the same trade id.
SameFillSameTradeId ==
    \A p, q \in DOMAIN fills_frame.polls :
        \A i \in DOMAIN fills_frame.polls[p].trade_updates :
            \A j \in DOMAIN fills_frame.polls[q].trade_updates :
                LET u == fills_frame.polls[p].trade_updates[i]
                    v == fills_frame.polls[q].trade_updates[j]
                IN  DealOf(fills_frame.polls[p], u) = DealOf(fills_frame.polls[q], v)
                    => u.trade_id = v.trade_id


(***************************************************************************)
(* The stream data sources: one connection at a time, its consumer, its    *)
(* liveness loop (_ping_loop) and its teardown.  The user stream and the   *)
(* order book data source have the same methods; kind tells them apart.    *)
(* The clock counts ticks of CLIENT_PING_INTERVAL seconds.                 *)
(***************************************************************************)
\* the most connections a data source opens in a run
MaxConnections == 2
\* the last tick of the clock
MaxClock == 3
\* the most messages received on one connection
MaxInbound == 2

\* a connection after ws.connect()
NewConnection(now) ==
    [state |-> "open", opened_at |-> now, sign |-> "none", inbound |-> 0,
     probes |-> <<>>, sent |-> <<>>]

\* a _ping_loop task after asyncio.create_task: asleep for one interval
NewPingTask(ws, now) ==
    [ws |-> ws, pc |-> "sleeping", wake_at |-> now + 1, id |-> 0, cancel |-> FALSE,
     cancelled_at |-> "none", outcome |-> "running"]

\* a request handed to ws.send: who sent it, whether the close of the
\* connection had begun, and whether the send succeeded
Sent(method, id, by, state, ok) ==
    [method |-> method, id |-> id, by |-> by, closing |-> state # "open", ok |-> ok]

\* messages of the venue: probes with and without an id, the acknowledgement
\* of a subscription, an event
ProbeA == PyDict([method |-> PyStr("server.ping"), params |-> PyList(<<>>), id |-> PyInt(41)])
ProbeNoId == PyDict([method |-> PyStr("server.ping"), params |-> PyList(<<>>)])
AckMessage == PyDict([result |-> PyDict([status |-> PyStr("success")]), id |-> PyInt(2)])
EventMessage == PyDict([method |-> PyStr("order.update"), params |-> PyList(<<PushOpen>>)])
DepthMessage == PyDict([method |-> PyStr("depth.update"), params |-> PyList(<<PyBool(FALSE)>>)])

InboundMessages == {ProbeA, ProbeNoId, AckMessage, EventMessage, DepthMessage}

\* the messages a connection of the data source receives here: the events of
\* the user stream are followed from the connection to the order tracker
\* further below, with the listener that reads the queue
StreamInbound ==
    IF data_source.kind = "user_stream" THEN {ProbeA, ProbeNoId, AckMessage}
    ELSE InboundMessages

\* _channel_originating_message names a channel of the order book
is_channel_message(message) ==
    IsDict(message)
    /\ Get(message.d, "method") \in {PyStr("depth.update"), PyStr("deals.update")}

is_server_ping(message) == IsDict(message) /\ Get(message.d, "method") = PyStr("server.ping")

\* a message counter that stands still
message_id_kept(message_id) == message_id

\* _next_message_id: the counter after the call, which is the id returned
next_message_id(message_id) == message_id + 1

\* _authenticate raises only when its send fails
authenticate_raises_on_send(outcome) == outcome = "send_failed"

\* _authenticate raises: ws.send failed, or the response to server.sign is a
\* dict with a code other than None and 0 (lines 77-78)
authenticate_raises(outcome) == outcome # "accepted"

\* the id of the acknowledgement always taken from the message counter
pong_id_fresh(message, next_id) == PyInt(next_id)

\* message.get("id", self._next_message_id())
pong_id(message, next_id) ==
    IF "id" \in DOMAIN message.d THEN message.d["id"] ELSE PyInt(next_id)

\* _ping_loop that lets the CancelledError out
ping_loop_cancel_raised(frame) ==
    [frame EXCEPT !.pc = "done", !.outcome = "cancelled", !.cancelled_at = frame.pc]

\* _ping_loop on CancelledError, raised at its sleep or at its send: it returns
ping_loop_cancelled(frame) ==
    [frame EXCEPT !.pc = "done", !.outcome = "returned", !.cancelled_at = frame.pc]

\* with suppress(asyncio.CancelledError): await self._ping_task -- what the
\* await raises in _cancel_ping_task for the outcome of the task
await_suppressed(outcome) ==
    IF outcome \in {"returned", "cancelled"} THEN "none" ELSE outcome

\* the connection the data source holds (self._ws_assistant / _active_ws)
Connection(c) == ws_connections[c]

\* the variables of the exchange class, which the data sources leave alone
exchangeVars ==
    <<trackerVars, current_timestamp, exchange_trading_pair_map, tasks, venueVars,
      faults, callVars, balanceVars, fillVars>>

\* the clock advances
StreamTick ==
    /\ stream_clock < MaxClock
    /\ stream_clock' = stream_clock + 1
    /\ UNCHANGED <<data_source, ws_connections, ping_tasks, listen_frame>>
    /\ UNCHANGED <<exchangeVars, user_stream_queue>>

\* _connected_websocket_assistant, up to ws.connect(): the connection opens,
\* or connect raises and the caller handles the interruption with the
\* connection it holds (none)
Connect(ok) ==
    /\ listen_frame.pc = "idle"
    /\ Len(ws_connections) < MaxConnections
    /\ stream_clock < MaxClock
    /\ stream_clock' = stream_clock + 1
    /\ IF ok
       THEN /\ ws_connections' = Append(ws_connections, NewConnection(stream_clock + 1))
            /\ listen_frame' =
                 [listen_frame EXCEPT
                    !.pc = IF data_source.kind = "user_stream"
                           THEN "authenticate" ELSE "start_ping_loop",
                    !.ws = Len(ws_connections) + 1]
       ELSE /\ listen_frame' = [listen_frame EXCEPT !.pc = "interrupted", !.ws = 0,
                                                     !.via = "interruption"]
            /\ UNCHANGED ws_connections
    /\ UNCHANGED <<data_source, ping_tasks>>
    /\ UNCHANGED <<exchangeVars, user_stream_queue>>

\* _authenticate: server.sign is sent with the next message id and answered;
\* the outcome is a failed send, a response with a nonzero code ("rejected")
\* or any other response ("accepted"); when it raises, the caller handles the
\* interruption with the connection it holds (none yet)
Authenticate(outcome) ==
    LET c == listen_frame.ws
        id == next_message_id(data_source.message_id)
    IN  /\ listen_frame.pc = "authenticate"
        /\ data_source' = [data_source EXCEPT !.message_id = id]
        /\ ws_connections' =
             [ws_connections EXCEPT
                ![c].sent =
                    Append(@, Sent("server.sign", PyInt(id), "consumer",
                                   Connection(c).state, outcome # "send_failed")),
                ![c].sign = IF outcome = "send_failed" THEN @ ELSE outcome]
        /\ listen_frame' =
             IF authenticate_raises(outcome)
             THEN [listen_frame EXCEPT !.pc = "interrupted", !.via = "interruption"]
             ELSE [listen_frame EXCEPT !.pc = "start_ping_loop"]
        /\ UNCHANGED <<ping_tasks, stream_clock>>
        /\ UNCHANGED <<exchangeVars, user_stream_queue>>

\* task.cancel() of _cancel_ping_task
cancel_requested(tasks_, k) ==
    IF k = 0 THEN tasks_ ELSE [tasks_ EXCEPT ![k].cancel = TRUE]

\* _start_ping_loop: the task the data source holds is cancelled and awaited
\* first; then the new task is created and the connection is handed to the
\* caller, which keeps it
StartPingLoop ==
    LET c == listen_frame.ws
    IN  /\ listen_frame.pc = "start_ping_loop"
        /\ IF data_source.ping_task = 0
           THEN /\ ping_tasks' = Append(ping_tasks, NewPingTask(c, stream_clock))
                /\ data_source' =
                     [data_source EXCEPT !.ping_task = Len(ping_tasks) + 1,
                                         !.ws_assistant = c]
                /\ listen_frame' = [listen_frame EXCEPT !.pc = "subscribe"]
           ELSE /\ ping_tasks' = cancel_requested(ping_tasks, data_source.ping_task)
                /\ listen_frame' = [listen_frame EXCEPT !.pc = "start_await_ping_task"]
                /\ UNCHANGED data_source
        /\ UNCHANGED <<ws_connections, stream_clock>>
        /\ UNCHANGED <<exchangeVars, user_stream_queue>>

\* _start_ping_loop after its _cancel_ping_task: the old task has ended
StartPingLoopResume ==
    LET c == listen_frame.ws
        old == ping_tasks[data_source.ping_task]
    IN  /\ listen_frame.pc = "start_await_ping_task"
        /\ old.pc = "done"
        /\ IF await_suppressed(old.outcome) = "none"
           THEN /\ ping_tasks' = Append(ping_tasks, NewPingTask(c, stream_clock))
                /\ data_source' =
                     [data_source EXCEPT !.ping_task = Len(ping_tasks) + 1,
                                         !.ws_assistant = c]
                /\ listen_frame' = [listen_frame EXCEPT !.pc = "subscribe"]
           ELSE /\ listen_frame' =
                     [listen_frame EXCEPT !.pc = "interrupted", !.via = "interruption",
                                          !.raised = old.outcome]
                /\ UNCHANGED <<ping_tasks, data_source>>
        /\ UNCHANGED <<ws_connections, stream_clock>>
        /\ UNCHANGED <<exchangeVars, user_stream_queue>>

\* _subscribe_channels: two requests with the next two message ids; a failed
\* send raises
SubscribeChannels(ok) ==
    LET c == listen_frame.ws
        first_id == next_message_id(data_source.message_id)
        second_id == next_message_id(first_id)
        first == IF data_source.kind = "user_stream" THEN "order.subscribe"
                 ELSE "depth.subscribe"
        second == IF data_source.kind = "user_stream" THEN "asset.subscribe"
                  ELSE "deals.subscribe"
    IN  /\ listen_frame.pc = "subscribe"
        /\ data_source' = [data_source EXCEPT !.message_id = second_id]
        /\ ws_connections' =
             [ws_connections EXCEPT ![c].sent =
                @ \o <<Sent(first, PyInt(first_id), "consumer",
                            Connection(c).state, ok)>>
                  \o (IF ok THEN <<Sent(second, PyInt(second_id), "consumer",
                                        Connection(c).state, TRUE)>>
                      ELSE <<>>)]
        /\ listen_frame' =
             IF ok THEN [listen_frame EXCEPT !.pc = "listening"]
             ELSE [listen_frame EXCEPT !.pc = "interrupted", !.via = "interruption"]
        /\ UNCHANGED <<ping_tasks, stream_clock>>
        /\ UNCHANGED <<exchangeVars, user_stream_queue>>

\* a message with a result
has_result(message) == IsDict(message) /\ "result" \in DOMAIN message.d

\* the acknowledgement of a subscription: a result and no method
is_subscription_ack(message) ==
    IsDict(message) /\ Get(message.d, "method") = PyNone /\ "result" \in DOMAIN message.d

\* UserStreamTrackerDataSource._process_event_message: a message that is not
\* empty is put on the queue
process_event_message(queue, event_message) ==
    IF Truthy(event_message) THEN [queue EXCEPT !.put = Append(@, event_message)]
    ELSE queue

\* _process_websocket_messages / _process_message_for_unknown_channel: a
\* message arrives; the user stream leaves out an empty one; a server.ping is
\* answered (_respond_to_ping, up to its ws.send), the user stream leaves out
\* the acknowledgement of a subscription and hands any other message to
\* _process_event_message; then the consumer waits for the next one
ReceiveMessage(message) ==
    LET c == listen_frame.ws
        user_stream == data_source.kind = "user_stream"
        empty == user_stream /\ ~Truthy(message)
        probe == ~empty /\ is_server_ping(message)
        id == next_message_id(data_source.message_id)
    IN  /\ listen_frame.pc = "listening"
        /\ Connection(c).state = "open"
        /\ Connection(c).inbound < MaxInbound
        /\ ws_connections' =
             [ws_connections EXCEPT
                ![c].inbound = @ + 1,
                ![c].probes = IF probe THEN Append(@, Get(message.d, "id")) ELSE @]
        /\ data_source' =
             [data_source EXCEPT
                !.last_event_timestamp =
                    IF (user_stream /\ ~empty) \/ is_channel_message(message)
                    THEN stream_clock ELSE @,
                !.last_server_ping_ts = IF probe THEN stream_clock ELSE @,
                !.message_id = IF probe THEN id ELSE @]
        /\ listen_frame' =
             IF probe
             THEN [listen_frame EXCEPT !.pc = "responding",
                                       !.pong = pong_id(message, id)]
             ELSE listen_frame
        /\ user_stream_queue' =
             IF user_stream /\ ~empty /\ ~probe /\ ~is_subscription_ack(message)
             THEN process_event_message(user_stream_queue, message)
             ELSE user_stream_queue
        /\ UNCHANGED <<ping_tasks, stream_clock>>
        /\ UNCHANGED exchangeVars

\* _respond_to_ping after its ws.send: the acknowledgement went out and its
\* time is recorded, or the send raised
PongSent(ok) ==
    LET c == listen_frame.ws
    IN  /\ listen_frame.pc = "responding"
        /\ ok => Connection(c).state = "open"
        /\ ws_connections' =
             [ws_connections EXCEPT ![c].sent =
                Append(@, Sent("server.pong", listen_frame.pong, "consumer",
                               Connection(c).state, ok))]
        /\ data_source' =
             IF ok THEN [data_source EXCEPT !.last_pong_sent_ts = stream_clock]
             ELSE data_source
        /\ listen_frame' =
             IF ok THEN [listen_frame EXCEPT !.pc = "listening", !.pong = PyNone]
             ELSE [listen_frame EXCEPT !.pc = "interrupted", !.via = "interruption",
                                       !.pong = PyNone]
        /\ UNCHANGED <<ping_tasks, stream_clock>>
        /\ UNCHANGED <<exchangeVars, user_stream_queue>>

\* iter_messages() raises or ends: the connection was lost
ReceiveFailed ==
    /\ listen_frame.pc = "listening"
    /\ listen_frame' = [listen_frame EXCEPT !.pc = "interrupted", !.via = "interruption"]
    /\ UNCHANGED <<data_source, ws_connections, ping_tasks, stream_clock>>
    /\ UNCHANGED <<exchangeVars, user_stream_queue>>

\* stop() is called while the consumer waits for a message
Stop ==
    /\ listen_frame.pc = "listening"
    /\ listen_frame' = [listen_frame EXCEPT !.pc = "interrupted", !.via = "stop"]
    /\ UNCHANGED <<data_source, ws_connections, ping_tasks, stream_clock>>
    /\ UNCHANGED <<exchangeVars, user_stream_queue>>

\* the frame after _on_user_stream_interruption / _on_order_stream_interruption
\* or stop() returned: the caller drops the connection and connects again, or
\* the data source is stopped
torn_down(frame) ==
    [frame EXCEPT !.pc = IF frame.via = "stop" THEN "stopped" ELSE "idle", !.ws = 0]

\* _cancel_ping_task, up to its await: the frame and the tasks
cancel_ping_task(frame, source, tasks_) ==
    IF source.ping_task = 0
    THEN [frame |-> torn_down(frame), tasks |-> tasks_]
    ELSE [frame |-> [frame EXCEPT !.pc = "await_ping_task"],
          tasks |-> cancel_requested(tasks_, source.ping_task)]

\* _on_user_stream_interruption / stop, first line: _safe_close_websocket
\* returns at once without a connection, else ws.disconnect() is awaited
SafeCloseWebsocket ==
    LET c == data_source.ws_assistant
        next == cancel_ping_task(listen_frame, data_source, ping_tasks)
    IN  /\ listen_frame.pc = "interrupted"
        /\ IF c = 0
           THEN /\ listen_frame' = next.frame
                /\ ping_tasks' = next.tasks
                /\ UNCHANGED ws_connections
           ELSE /\ ws_connections' = [ws_connections EXCEPT ![c].state = "closing"]
                /\ listen_frame' = [listen_frame EXCEPT !.pc = "closing"]
                /\ UNCHANGED ping_tasks
        /\ UNCHANGED <<data_source, stream_clock>>
        /\ UNCHANGED <<exchangeVars, user_stream_queue>>

\* ws.disconnect() ends: it returned, it raised an exception (logged), or the
\* coroutine was cancelled at it (CancelledError is raised again and ends the
\* teardown); else _log_disconnect_summary and _cancel_ping_task follow
Disconnected(outcome) ==
    LET c == data_source.ws_assistant
        next == cancel_ping_task(listen_frame, data_source, ping_tasks)
    IN  /\ listen_frame.pc = "closing"
        /\ ws_connections' =
             [ws_connections EXCEPT ![c].state = IF outcome = "closed" THEN "closed" ELSE @]
        /\ IF outcome = "cancelled"
           THEN /\ listen_frame' =
                     [listen_frame EXCEPT !.pc = "cancelled", !.raised = "CancelledError"]
                /\ UNCHANGED ping_tasks
           ELSE /\ listen_frame' = next.frame
                /\ ping_tasks' = next.tasks
        /\ data_source' =
             IF outcome # "cancelled" /\ data_source.ping_task = 0
             THEN [data_source EXCEPT !.ws_assistant = 0]
             ELSE data_source
        /\ UNCHANGED stream_clock
        /\ UNCHANGED <<exchangeVars, user_stream_queue>>

\* _cancel_ping_task after its await: the task has ended, the data source
\* forgets it
CancelPingTaskEnd ==
    LET old == ping_tasks[data_source.ping_task]
    IN  /\ listen_frame.pc = "await_ping_task"
        /\ old.pc = "done"
        /\ data_source' = [data_source EXCEPT !.ping_task = 0, !.ws_assistant = 0]
        /\ listen_frame' =
             IF await_suppressed(old.outcome) = "none" THEN torn_down(listen_frame)
             ELSE [listen_frame EXCEPT !.pc = "cancelled", !.raised = old.outcome]
        /\ UNCHANGED <<ws_connections, ping_tasks, stream_clock>>
        /\ UNCHANGED <<exchangeVars, user_stream_queue>>

\* the owner starts the data source again after it stopped or was cancelled
Restart ==
    /\ listen_frame.pc \in {"stopped", "cancelled"}
    /\ listen_frame' = NoListener
    /\ data_source' =
         [data_source EXCEPT
            !.ws_assistant = IF data_source.kind = "user_stream" THEN @ ELSE 0]
    /\ UNCHANGED <<ws_connections, ping_tasks, stream_clock>>
    /\ UNCHANGED <<exchangeVars, user_stream_queue>>

\* _ping_loop wakes from its sleep: _send_ping records the time, takes the
\* next message id and hands server.ping to ws.send
PingWake(k) ==
    /\ ping_tasks[k].pc = "sleeping"
    /\ ~ping_tasks[k].cancel
    /\ stream_clock >= ping_tasks[k].wake_at
    /\ data_source' =
         [data_source EXCEPT !.last_client_ping_ts = stream_clock,
                             !.message_id = next_message_id(@)]
    /\ ping_tasks' =
         [ping_tasks EXCEPT ![k].pc = "sending",
                            ![k].id = next_message_id(data_source.message_id)]
    /\ ws_connections' =
         [ws_connections EXCEPT ![ping_tasks[k].ws].sent =
            Append(@, Sent("server.ping",
                           PyInt(next_message_id(data_source.message_id)), "ping_loop",
                           Connection(ping_tasks[k].ws).state, TRUE))]
    /\ UNCHANGED <<listen_frame, stream_clock>>
    /\ UNCHANGED <<exchangeVars, user_stream_queue>>

\* ws.send of the probe ends: it went out, or it raised an exception, which
\* _ping_loop logs; the loop sleeps again
PingSent(k, ok) ==
    LET c == ping_tasks[k].ws
        last == Len(Connection(c).sent)
        probe == CHOOSE i \in DOMAIN Connection(c).sent :
                    /\ Connection(c).sent[i].by = "ping_loop"
                    /\ Connection(c).sent[i].id = PyInt(ping_tasks[k].id)
    IN  /\ ping_tasks[k].pc = "sending"
        /\ ~ping_tasks[k].cancel
        /\ ok => Connection(c).state = "open"
        /\ ws_connections' = [ws_connections EXCEPT ![c].sent[probe].ok = ok]
        /\ ping_tasks' =
             [ping_tasks EXCEPT ![k].pc = "sleeping", ![k].wake_at = stream_clock + 1]
        /\ UNCHANGED <<data_source, listen_frame, stream_clock>>
        /\ UNCHANGED <<exchangeVars, user_stream_queue>>

\* the cancellation reaches _ping_loop at its sleep or at its send
PingLoopCancelled(k) ==
    /\ ping_tasks[k].pc \in {"sleeping", "sending"}
    /\ ping_tasks[k].cancel
    /\ ping_tasks' = [ping_tasks EXCEPT ![k] = ping_loop_cancelled(@)]
    /\ UNCHANGED <<data_source, ws_connections, listen_frame, stream_clock>>
    /\ UNCHANGED <<exchangeVars, user_stream_queue>>

StreamKinds == {"user_stream", "order_book"}

StreamInit ==
    /\ in_flight_orders = <<>>
    /\ order_updates = <<>>
    /\ lost_updates = {}
    /\ current_timestamp = 0
    /\ exchange_trading_pair_map = {}
    /\ tasks = <<>>
    /\ venue_pending = <<>>
    /\ venue_finished = <<>>
    /\ faults = 0
    /\ cancel_all_frame = NoCall
    /\ status_poll = NoPoll
    /\ events_handled = 0
    /\ BalancesInit
    /\ FillsInit
    /\ data_source \in {NewDataSource(kind) : kind \in StreamKinds}
    /\ ws_connections = <<>>
    /\ ping_tasks = <<>>
    /\ listen_frame = NoListener
    /\ stream_clock = 1
    /\ user_stream_queue = EmptyQueue

StreamNext ==
    \/ StreamTick
    \/ \E ok \in BOOLEAN : Connect(ok)
    \/ \E outcome \in {"accepted", "rejected", "send_failed"} : Authenticate(outcome)
    \/ StartPingLoop
    \/ StartPingLoopResume
    \/ \E ok \in BOOLEAN : SubscribeChannels(ok)
    \/ \E message \in StreamInbound : ReceiveMessage(message)
    \/ \E ok \in BOOLEAN : PongSent(ok)
    \/ ReceiveFailed
    \/ Stop
    \/ SafeCloseWebsocket
    \/ \E outcome \in {"closed", "error", "cancelled"} : Disconnected(outcome)
    \/ CancelPingTaskEnd
    \/ Restart
    \/ \E k \in DOMAIN ping_tasks : PingWake(k)
    \/ \E k \in DOMAIN ping_tasks : \E ok \in BOOLEAN : PingSent(k, ok)
    \/ \E k \in DOMAIN ping_tasks : PingLoopCancelled(k)


SpecStream == StreamInit /\ [][StreamNext]_vars


\* the acknowledgements handed to ws.send on a connection, in order
Pongs(c) == SelectSeq(Connection(c).sent, LAMBDA m : m.method = "server.pong")

\* the consumer is inside _respond_to_ping on the connection
Responding(c) == listen_frame.pc = "responding" /\ listen_frame.ws = c

\* C21: for every server.ping received on a connection the consumer hands one
\* server.pong to the connection before it takes the next message, with the
\* id of the probe when the probe has one, and it records the time of the
\* probe and, once the acknowledgement went out, the time of the
\* acknowledgement.
PongAnswersEveryProbe ==
    \A c \in DOMAIN ws_connections :
        LET probes == Connection(c).probes
            pongs == Pongs(c)
            pending == IF Responding(c) THEN 1 ELSE 0
        IN  /\ Len(pongs) + pending = Len(probes)
            /\ \A i \in DOMAIN pongs : ~IsNone(probes[i]) => pongs[i].id = probes[i]
            /\ (pending = 1 /\ ~IsNone(probes[Len(probes)]))
               => listen_frame.pong = probes[Len(probes)]
            /\ (probes # <<>> /\ listen_frame.ws = c)
               => /\ data_source.last_server_ping_ts >= Connection(c).opened_at
                  /\ (pending = 0 /\ pongs[Len(pongs)].ok)
                     => data_source.last_pong_sent_ts >= data_source.last_server_ping_ts

\* C21 witness: two probes arrived on a connection, the first with the id 41,
\* and each was acknowledged, the first under the id 41, while the liveness
\* loop sent a probe of its own.
TwoProbesAcknowledged ==
    \E c \in DOMAIN ws_connections :
        /\ Len(Connection(c).probes) = 2
        /\ Connection(c).probes[1] = PyInt(41)
        /\ Len(Pongs(c)) = 2
        /\ Pongs(c)[1].id = PyInt(41)
        /\ \A i \in DOMAIN Pongs(c) : Pongs(c)[i].ok
        /\ \E i \in DOMAIN Connection(c).sent : Connection(c).sent[i].by = "ping_loop"
        /\ data_source.last_pong_sent_ts >= data_source.last_server_ping_ts
        /\ data_source.last_server_ping_ts >= Connection(c).opened_at


\* the consumer works on the connection: it is neither handling an
\* interruption of it nor has it left it
InUse(c) ==
    /\ listen_frame.ws = c
    /\ listen_frame.pc \in {"authenticate", "start_ping_loop", "start_await_ping_task",
                            "subscribe", "listening", "responding"}

\* C22: a step in which a send on a connection fails, the send of a probe by
\* the liveness loop included, leaves the connection interrupted: the
\* consumer does not go on using it.
SendFailureInterrupts ==
    [][/\ PongSent(FALSE) => ~InUse(listen_frame.ws)'
       /\ SubscribeChannels(FALSE) => ~InUse(listen_frame.ws)'
       /\ \A k \in DOMAIN ping_tasks :
            PingSent(k, FALSE) => ~InUse(ping_tasks[k].ws)']_vars


\* the liveness loops that a teardown cancelled
CancelledLoops == {k \in DOMAIN ping_tasks : ping_tasks[k].pc = "done"}

\* C23: cancelling the liveness loop during teardown completes without
\* raising: a cancelled loop returns, whether it was cancelled at its sleep or
\* at its send, and the teardown that awaited it ends with no exception of
\* the loop.
CancellationAbsorbed ==
    /\ \A k \in CancelledLoops : ping_tasks[k].outcome = "returned"
    /\ listen_frame.raised \in {"none", "CancelledError"}
    /\ listen_frame.raised = "CancelledError"
       => \A k \in CancelledLoops : ping_tasks[k].ws # listen_frame.ws

\* C23 witness: two teardowns ran to their end without an exception, the
\* loop of one cancelled at its sleep and that of the other at its send, and
\* the data source holds no liveness loop.
BothLoopsCancelledQuietly ==
    /\ {ping_tasks[k].cancelled_at : k \in CancelledLoops} = {"sleeping", "sending"}
    /\ listen_frame.pc \in {"idle", "stopped"}
    /\ listen_frame.raised = "none"
    /\ data_source.ping_task = 0


\* the four health timestamps of the data source
HealthTimestamps ==
    {data_source.last_event_timestamp, data_source.last_server_ping_ts,
     data_source.last_client_ping_ts, data_source.last_pong_sent_ts}

\* C24: after a reconnect, once the new connection has its liveness loop, no
\* health timestamp carries a value recorded on an earlier connection: each
\* is unset or was recorded since the new connection opened.
FreshHealthOnReconnect ==
    \A c \in DOMAIN ws_connections :
        (/\ c > 1
         /\ listen_frame.ws = c
         /\ listen_frame.pc \in {"subscribe", "listening", "responding"}
         /\ data_source.ping_task # 0
         /\ ping_tasks[data_source.ping_task].ws = c)
        => \A ts \in HealthTimestamps : ts = 0 \/ ts >= Connection(c).opened_at


\* the liveness loops that have not ended
RunningLoops == {k \in DOMAIN ping_tasks : ping_tasks[k].pc # "done"}

\* interruption handling or stop has finished: it returned, or an exception
\* or a cancellation ended it
TeardownFinished == listen_frame.pc \in {"idle", "stopped", "cancelled"}

\* C25: a data source has at most one running liveness loop at any moment,
\* and none once interruption handling or stop has finished, be it normally
\* or by an exception or cancellation raised while closing the connection.
NoLoopAfterTeardown ==
    /\ Cardinality(RunningLoops) <= 1
    /\ TeardownFinished => RunningLoops = {}

\* C26: the liveness loop never hands a probe to a connection whose close
\* has begun: during interruption handling and stop its exit is awaited
\* before the connection is closed.
NoProbeOnClosingConnection ==
    \A c \in DOMAIN ws_connections :
        \A i \in DOMAIN Connection(c).sent :
            Connection(c).sent[i].by = "ping_loop" => ~Connection(c).sent[i].closing


\* the requests that the client originates
ClientRequests ==
    {"server.sign", "order.subscribe", "asset.subscribe", "depth.subscribe",
     "deals.subscribe", "server.ping"}

\* the positions of the client's own requests among those sent on connection c
OwnRequests(c) ==
    {i \in DOMAIN Connection(c).sent : Connection(c).sent[i].method \in ClientRequests}

\* C36: on a connection every request that the client originates carries an
\* id different from the id of every other request it originated on that
\* connection, however the liveness loop, the consumer and the replies to
\* probes of the venue interleave.
UniqueRequestIds ==
    \A c \in DOMAIN ws_connections :
        \A i, j \in OwnRequests(c) :
            i # j => Connection(c).sent[i].id # Connection(c).sent[j].id

\* C36 witness: on one connection the handshake requests went out, then an
\* acknowledgement of a probe without an id, which took an id of the counter,
\* then a probe of the liveness loop: four requests of the client in all.
RequestsAroundAPong ==
    \E c \in DOMAIN ws_connections :
        /\ Cardinality(OwnRequests(c)) >= 4
        /\ \E i, j \in DOMAIN Connection(c).sent :
                /\ i < j
                /\ Connection(c).sent[i].method = "server.pong"
                /\ Connection(c).sent[i].id # PyInt(41)
                /\ Connection(c).sent[j].method = "server.ping"

\* C40: on the user stream no liveness loop exists for a connection and no
\* liveness probe was sent on it unless the response to its server.sign was
\* accepted, and a connection whose server.sign was answered with a nonzero
\* code is not used: connecting ended with an error.
LivenessAfterAuthentication ==
    data_source.kind = "user_stream"
    => /\ \A k \in DOMAIN ping_tasks : Connection(ping_tasks[k].ws).sign = "accepted"
       /\ \A c \in DOMAIN ws_connections :
            /\ \A i \in DOMAIN Connection(c).sent :
                    Connection(c).sent[i].by = "ping_loop"
                    => \E j \in 1..(i - 1) :
                            /\ Connection(c).sent[j].method = "server.sign"
                            /\ Connection(c).sent[j].ok
                            /\ Connection(c).sign = "accepted"
            /\ Connection(c).sign = "rejected" => ~InUse(c)

\* C40 witness: on the user stream a first connection was authenticated and
\* its liveness loop sent a probe; the server.sign of the second connection
\* was answered with a nonzero code, and no liveness loop was made for it.
RejectedSignWithoutLoop ==
    /\ data_source.kind = "user_stream"
    /\ Len(ws_connections) = 2
    /\ Connection(1).sign = "accepted"
    /\ \E i \in DOMAIN Connection(1).sent : Connection(1).sent[i].by = "ping_loop"
    /\ Connection(2).sign = "rejected"
    /\ \A k \in DOMAIN ping_tasks : ping_tasks[k].ws # 2


(***************************************************************************)
(* The user stream from the connection to the order tracker: the data      *)
(* source connects and receives messages, _user_stream_event_listener      *)
(* reads the queue.                                                        *)
(***************************************************************************)
\* messages of the venue on the user stream: an event that carries a result,
\* events of one and of several entries, an event whose second entry names a
\* market that cannot be split, a balance event given as a list, and a blank
\* frame
ResultEvent ==
    PyDict([method |-> PyStr("order.update"), params |-> PushFilled, result |-> PyNone])
EntriesEvent ==
    PyDict([method |-> PyStr("order.update"), params |-> PyList(<<PushCanceled, PushOpen>>)])
BadSymbolEvent ==
    PyDict([method |-> PyStr("order.update"),
            params |-> PyList(<<PushOpen, PushBadSymbol, PushCanceled>>)])
BalanceEvent == PyList(<<PyStr("asset.update"), BalanceBtc>>)
BlankMessage == PyNone

UserStreamInbound ==
    {ProbeA, AckMessage, ResultEvent, EventMessage, EntriesEvent, BadSymbolEvent,
     BalanceEvent, BlankMessage}

\* the message the listener takes next
PendingEvents ==
    IF user_stream_queue.taken < Len(user_stream_queue.put)
    THEN {user_stream_queue.put[user_stream_queue.taken + 1]}
    ELSE {}

UserEventsInit ==
    /\ in_flight_orders \in
            [{1} -> {TrackedOrder("c1", e, BUY, 100000, 200000, BTC_USDT) :
                        e \in {PyNone, PyStr(AckId)}}]
    /\ order_updates = [o \in {1} |-> <<>>]
    /\ lost_updates = {}
    /\ current_timestamp = 0
    /\ exchange_trading_pair_map = {}
    /\ tasks = <<>>
    /\ venue_pending = <<>>
    /\ venue_finished = <<>>
    /\ faults = 0
    /\ cancel_all_frame = NoCall
    /\ status_poll = NoPoll
    /\ events_handled = 0
    /\ BalancesInit
    /\ FillsInit
    /\ StreamIdle

\* the task of _user_stream_event_listener is cancelled while the handler of
\* an order.update message awaits the trading pair of its entry i: the
\* entries before it were handled, CancelledError is raised again by the
\* listener
HandlerCancelled(event_message, i) ==
    LET params == message_params(event_message)
        entries == IF IsList(params) THEN params.q ELSE <<params>>
        st == process_order_entries(
                [ts |-> Tracker, map |-> exchange_trading_pair_map, raised |-> FALSE,
                 forwarded |-> <<>>],
                SubSeq(entries, 1, i - 1), 1)
    IN  /\ user_stream_frame.awaits = "get"
        /\ user_stream_queue.taken < Len(user_stream_queue.put)
        /\ event_message = user_stream_queue.put[user_stream_queue.taken + 1]
        /\ message_method(event_message) = PyStr("order.update")
        /\ i \in DOMAIN entries
        /\ HasSymbol(entries[i])
        /\ ~st.raised
        /\ user_stream_queue' = [user_stream_queue EXCEPT !.taken = @ + 1]
        /\ SetTracker(st.ts)
        /\ exchange_trading_pair_map' = st.map
        /\ user_stream_frame' =
                listener_cancelled(
                    [user_stream_frame EXCEPT !.history = @ \o st.forwarded])
        /\ UNCHANGED <<current_timestamp, tasks, venueVars, faults, callVars,
                       account_balances, account_available_balances,
                       empty_balance_logged, trading_pairs, venue_balances,
                       update_balances_frame, fillVars, data_source, ws_connections,
                       ping_tasks, listen_frame, stream_clock>>

\* the most entries of a message
MaxEntries == 3

\* the steps of the listener
ListenerNext ==
    \/ \E event_message \in PendingEvents : UserStreamEventListener(event_message)
    \/ ListenerSleepEnds

UserEventsNext ==
    \/ Connect(TRUE)
    \/ Authenticate("accepted")
    \/ StartPingLoop
    \/ SubscribeChannels(TRUE)
    \/ \E message \in UserStreamInbound : ReceiveMessage(message)
    \/ \E ok \in BOOLEAN : PongSent(ok)
    \/ ListenerNext
    \/ ListenerCancelled
    \/ \E event_message \in PendingEvents :
            \E i \in 1..MaxEntries : HandlerCancelled(event_message, i)

SpecUserEvents == UserEventsInit /\ [][UserEventsNext]_vars

\* the listener takes the next message of the queue
ListenerTakes ==
    /\ user_stream_frame.awaits = "get"
    /\ user_stream_queue.taken < Len(user_stream_queue.put)
    /\ user_stream_queue' = [user_stream_queue EXCEPT !.taken = @ + 1]

\* the event loop runs a listener that can go on: a message that waits in
\* the queue is taken, a sleep ends
SpecUserEventsLive ==
    /\ SpecUserEvents
    /\ WF_user_stream_queue(ListenerTakes)
    /\ WF_vars(ListenerSleepEnds)

\* a probe of the venue
IsProbe(message) ==
    IsDict(message) /\ "method" \in DOMAIN message.d
    /\ message.d["method"] = PyStr("server.ping")

\* a message with a result and no method
IsAcknowledgement(message) ==
    /\ IsDict(message)
    /\ "result" \in DOMAIN message.d
    /\ ("method" \in DOMAIN message.d => message.d["method"] = PyNone)

\* the queue after the data source received message
QueueAfter(message) ==
    IF Truthy(message) /\ ~IsProbe(message) /\ ~IsAcknowledgement(message)
    THEN Append(user_stream_queue.put, message)
    ELSE user_stream_queue.put

\* C38: on the user stream a server.ping of the venue and the acknowledgement
\* of a subscription (a result and no method) are never put on the event
\* queue; every other message that is not empty is put on it once, behind the
\* messages received before it, when it is received, and nothing else puts a
\* message on the queue or changes the messages put.
EventsQueuedOnceInOrder ==
    [][/\ \A message \in UserStreamInbound :
            ReceiveMessage(message) => user_stream_queue'.put = QueueAfter(message)
       /\ (~ \E message \in UserStreamInbound : ReceiveMessage(message))
            => user_stream_queue'.put = user_stream_queue.put]_vars

\* C38 witness: the connection received a probe and an event that carries a
\* result; the queue holds the event alone.
ProbeSkippedEventQueued ==
    /\ Len(ws_connections) = 1
    /\ Connection(1).inbound = 2
    /\ Len(Connection(1).probes) = 1
    /\ user_stream_queue.put = <<ResultEvent>>

\* the entries of an order.update message, none for another message
OrderEntriesOf(message) ==
    IF message_method(message) # PyStr("order.update") THEN <<>>
    ELSE LET params == message_params(message)
         IN  IF IsList(params) THEN params.q ELSE <<params>>

\* the OrderUpdates due for a message: those of its well-formed entries that
\* stand before its first entry whose market symbol cannot be split
UpdatesOfMessage(message) ==
    LET entries == OrderEntriesOf(message)
        bad == {i \in DOMAIN entries : BadSymbol(entries[i])}
        read == SubSeq(entries, 1,
                       IF bad = {} THEN Len(entries)
                       ELSE (CHOOSE i \in bad : \A j \in bad : i <= j) - 1)
        named == SelectSeq(read, WellFormed)
    IN  [k \in DOMAIN named |-> order_event_update(named[k].d)]

\* the OrderUpdates due for the first n of the messages, message by message
RECURSIVE UpdatesInOrder(_, _)
UpdatesInOrder(messages, n) ==
    IF n = 0 THEN <<>>
    ELSE UpdatesInOrder(messages, n - 1) \o UpdatesOfMessage(messages[n])

\* C35: the OrderUpdates passed to the order tracker are those of the push
\* messages taken so far, in the order in which the messages were received
\* on the connection and, within a message, in the order of its entries: no
\* update overtakes an earlier one.  Of a message whose handler was
\* cancelled the updates of its first entries were passed.
PushUpdatesInReceiptOrder ==
    LET handled == UpdatesInOrder(user_stream_queue.put, events_handled)
    IN  IF user_stream_queue.taken = events_handled
        THEN user_stream_frame.history = handled
        ELSE \* the handler of the message taken last was cancelled
             LET due == UpdatesOfMessage(user_stream_queue.put[user_stream_queue.taken])
             IN  /\ user_stream_queue.taken = events_handled + 1
                 /\ \E n \in 0..Len(due) :
                        user_stream_frame.history = handled \o SubSeq(due, 1, n)

\* C35 witness: a message of two entries and then a message of one entry
\* were received and handled; their three OrderUpdates, of three different
\* states, reached the tracker.
ThreeUpdatesOfTwoMessages ==
    /\ user_stream_queue.put = <<EntriesEvent, ResultEvent>>
    /\ user_stream_queue.taken = 2
    /\ Len(user_stream_frame.history) = 3
    /\ Cardinality({user_stream_frame.history[i].new_state : i \in 1..3}) = 3

\* the listener was cancelled
Cancelled == user_stream_frame.awaits = "cancelled"

\* C39: an exception raised while one event of the user stream is handled
\* does not stop _user_stream_event_listener: unless the listener is
\* cancelled, every event on the queue is eventually taken and handled, also
\* behind an event whose handler raised; a cancellation leaves the listener
\* as CancelledError, and a cancelled listener takes no further event.
ListenerSurvivesExceptions ==
    /\ \A n \in 1..MaxInbound :
            (Len(user_stream_queue.put) >= n /\ user_stream_queue.taken < n)
                ~> (user_stream_queue.taken >= n \/ Cancelled)
    /\ [](Cancelled => user_stream_frame.raised = "CancelledError")
    /\ [][Cancelled => /\ user_stream_frame' = user_stream_frame
                       /\ user_stream_queue'.taken = user_stream_queue.taken]_vars

\* C39 witness: the handler of the first event raised, which was logged, and
\* the event queued behind it was handled.
HandledAfterException ==
    /\ user_stream_queue.put = <<BadSymbolEvent, EventMessage>>
    /\ user_stream_queue.taken = 2
    /\ user_stream_frame.exceptions = 1
    /\ user_stream_frame.pc = "handled"
    /\ ~Cancelled

====
